---- MODULE Spec2Model ----
(***************************************************************************)
(* A model of the efa bytecode virtual machine (efa-core/src/vm/mod.rs)    *)
(* and of the code store it reads (efa-core/src/db/mod.rs).                *)
(*                                                                         *)
(* One behaviour is one Vm: a store that was filled before execution, one  *)
(* call of run_main_function on it, and the iterations of the exec loop.   *)
(* Each iteration of the loop is one action, named after the arm of the    *)
(* `match instr` it takes.                                                  *)
(*                                                                         *)
(* Representation.  A Value is a pair <<variant, payload>>, an Instr a     *)
(* tuple <<mnemonic>> or <<mnemonic, immediate>>, a Rust Option is <<>>    *)
(* (None) or <<x>> (Some(x)).  A String payload is the sequence of its     *)
(* character codes.  A Hash is <<obj>>, the code object it is the digest   *)
(* of: the truncated SHA-512 is taken to be free of collisions.            *)
(* Instruction pointers and label offsets count from 0 as in the source;   *)
(* TLA+ sequences count from 1, hence the "+ 1" where code is indexed.     *)
(***************************************************************************)
EXTENDS Integers, Sequences, FiniteSets, TLC

VARIABLES
    db,          \* Vm.db: the two tables of the store
    call_stack,  \* Vm.call_stack: Vec<StackFrame>, the last element is the top
    result,      \* where run_main_function is: not called, in the loop, returned, panicked
    call_log,    \* history variable: for each frame, how it was created
    executed,    \* history variable: the instruction of the last iteration, if any
    runs         \* history variable: how each call of run_main_function ended

vars == <<db, call_stack, result, call_log, executed, runs>>

----------------------------------------------------------------------------
(* Bounds of the model *)

\* Longest body of a generated code object.
MaxBody == 2
\* Deepest call stack and longest operand stack explored under Spec.
MaxDepth == 4
MaxStack == 4

\* const STACK_CAP: usize = 256
STACK_CAP == 256

\* Vm::new: data_stack_cap: STACK_CAP, call_stack_cap: STACK_CAP
data_stack_cap == STACK_CAP
call_stack_cap == STACK_CAP

----------------------------------------------------------------------------
(* Values *)

I32(n) == <<"I32", n>>
Bool(b) == <<"Bool", b>>
\* Value::Char, the payload the code point
Char(c) == <<"Char", c>>
\* Value::Container, the payload the sequence of its values
Container(vs) == <<"Container", vs>>
Str(s) == <<"String", s>>
HashV(h) == <<"Hash", h>>

\* Option
None == <<>>
Some(x) == <<x>>

\* CodeObject::hash
hash(code_obj) == <<code_obj>>

----------------------------------------------------------------------------
(* The store *)

\* Database::temp / build_schema: two empty tables
EmptyDb == [code_objs |-> <<>>, names |-> <<>>]

\* Database::get_code_object: Ok(obj) as <<obj>>, Err as <<>>
get_code_object(d, h) ==
    LET IsH(row) == row.hash = h
        found == SelectSeq(d.code_objs, IsH)
    IN IF found = <<>> THEN None ELSE Some(found[1].code_obj)

\* Database::get_main_object: Ok((hash, obj)) as <<hash, obj>>, Err as <<>>
get_main_object(d) ==
    LET IsMain(row) == row.is_main
        found == SelectSeq(d.code_objs, IsMain)
    IN IF found = <<>> THEN None ELSE <<found[1].hash, found[1].code_obj>>

\* Database::get_code_object_by_name: Ok((hash, obj)) as <<hash, obj>>, Err as <<>>
get_code_object_by_name(d, name) ==
    LET IsN(row) == row.name = name
        found == SelectSeq(d.names, IsN)
    IN IF found = <<>> THEN None
       ELSE LET obj == get_code_object(d, found[1].hash)
            IN IF obj = None THEN None ELSE <<found[1].hash, obj[1]>>

\* The spelling of the names the model uses, character by character.
Spelling ==
    ("main" :> <<"m", "a", "i", "n">>) @@
    ("func_b" :> <<"f", "u", "n", "c", "_", "b">>) @@
    ("void_b" :> <<"v", "o", "i", "d", "_", "b">>) @@
    ("sub2" :> <<"s", "u", "b", "2">>) @@
    ("fall" :> <<"f", "a", "l", "l">>) @@
    ("fib" :> <<"f", "i", "b">>) @@
    ("rec2" :> <<"r", "e", "c", "2">>) @@
    ("g" :> <<"g">>) @@
    ("nope" :> <<"n", "o", "p", "e">>) @@
    ("hello name" :> <<"h", "e", "l", "l", "o", " ", "n", "a", "m", "e">>) @@
    ("L0" :> <<"L", "0">>) @@
    ("L1" :> <<"L", "1">>)

Letters ==
    {"a", "b", "c", "d", "e", "f", "g", "h", "i", "j", "k", "l", "m",
     "n", "o", "p", "q", "r", "s", "t", "u", "v", "w", "x", "y", "z",
     "A", "B", "C", "D", "E", "F", "G", "H", "I", "J", "K", "L", "M",
     "N", "O", "P", "Q", "R", "S", "T", "U", "V", "W", "X", "Y", "Z"}
Digits == {"0", "1", "2", "3", "4", "5", "6", "7", "8", "9"}

\* is_valid_name: syn::parse_str::<syn::Ident>(name).is_ok(), an identifier
\* that is not the lone underscore (none of the model's names is a keyword)
is_valid_name(name) ==
    LET cs == Spelling[name]
    IN /\ cs # <<>>
       /\ cs # <<"_">>
       /\ cs[1] \in Letters \cup {"_"}
       /\ \A k \in 2..Len(cs) : cs[k] \in Letters \cup Digits \cup {"_"}

\* Database::insert_code_object: Ok(hash) with the new tables, or Err.
\* Both columns hash and code_obj are UNIQUE, so a stored object is refused.
insert_code_object(d, code_obj, is_main) ==
    IF \E k \in 1..Len(d.code_objs) :
           \/ d.code_objs[k].hash = hash(code_obj)
           \/ d.code_objs[k].code_obj = code_obj
    THEN [ok |-> FALSE, db |-> d, hash |-> hash(code_obj)]
    ELSE [ok |-> TRUE,
          db |-> [d EXCEPT !.code_objs =
                     Append(@, [hash |-> hash(code_obj), code_obj |-> code_obj,
                                is_main |-> is_main])],
          hash |-> hash(code_obj)]

\* Database::insert_code_object_with_name
insert_code_object_with_name(d, code_obj, name) ==
    IF ~is_valid_name(name)
    THEN [ok |-> FALSE, db |-> d, hash |-> hash(code_obj)]
    ELSE LET r == insert_code_object(d, code_obj, name = "main")
         IN IF ~r.ok THEN r
            ELSE IF \E k \in 1..Len(r.db.names) : r.db.names[k].name = name
                 THEN [ok |-> FALSE, db |-> r.db, hash |-> r.hash]
                 ELSE [ok |-> TRUE,
                       db |-> [r.db EXCEPT !.names =
                                  Append(@, [name |-> name, hash |-> r.hash])],
                       hash |-> r.hash]

\* create_alias that binds the name once more when it is bound already (no
\* UNIQUE on names.name)
create_alias_rebinding(d, name, h) ==
    IF get_code_object(d, h) = None
    THEN [ok |-> FALSE, db |-> d]
    ELSE [ok |-> TRUE,
          db |-> [d EXCEPT !.names = Append(@, [name |-> name, hash |-> h])]]

\* create_alias that does not look the hash up
create_alias_unchecked(d, name, h) ==
    IF \E k \in 1..Len(d.names) : d.names[k].name = name
    THEN [ok |-> FALSE, db |-> d]
    ELSE [ok |-> TRUE,
          db |-> [d EXCEPT !.names = Append(@, [name |-> name, hash |-> h])]]

\* Database::create_alias: Ok(()) with the new tables, or Err.  The hash must
\* be stored; names.name is UNIQUE; the name is not looked at otherwise.
create_alias(d, name, h) ==
    IF get_code_object(d, h) = None
    THEN [ok |-> FALSE, db |-> d]
    ELSE IF \E k \in 1..Len(d.names) : d.names[k].name = name
         THEN [ok |-> FALSE, db |-> d]
         ELSE [ok |-> TRUE,
               db |-> [d EXCEPT !.names = Append(@, [name |-> name, hash |-> h])]]

----------------------------------------------------------------------------
(* Code objects and frames *)

\* struct CodeObject
CodeObject(litpool, argcount, localnames, labels, code) ==
    [litpool |-> litpool, argcount |-> argcount, localnames |-> localnames,
     labels |-> labels, code |-> code]

\* HashMap::new()
NoLocals == [n \in {} |-> None]

\* struct StackFrame
StackFrame(code_obj, stack, locals, instruction) ==
    [code_obj |-> code_obj, stack |-> stack, locals |-> locals,
     instruction |-> instruction]

\* Vec::pop and Vec::last on a non-empty vector
Last(s) == s[Len(s)]
ButLast(s) == SubSeq(s, 1, Len(s) - 1)

\* HashMap::insert
MapInsert(m, k, v) == [n \in (DOMAIN m) \cup {k} |-> IF n = k THEN v ELSE m[n]]

----------------------------------------------------------------------------
(* Value operators (impl Add, Sub, ... for Value).  Each yields the set of  *)
(* results the build can produce: <<"ok", v>> or <<"panic">>.  An integer   *)
(* overflow panics with overflow checks on (debug) and wraps with them off  *)
(* (release), so both are results.                                          *)

IntVariants == {"I8", "I32"}
Bits(variant) == IF variant = "I8" THEN 8 ELSE 32

\* i8::MIN, i8::MAX, i32::MIN, i32::MAX
MinInt(variant) == IF variant = "I8" THEN -128 ELSE -2147483647 - 1
MaxInt(variant) == IF variant = "I8" THEN 127 ELSE 2147483647

\* x + y overflows the variant.  No intermediate result leaves the range.
AddOverflows(variant, x, y) ==
    \/ y > 0 /\ x > MaxInt(variant) - y
    \/ y < 0 /\ x < MinInt(variant) - y

\* x.wrapping_add(y)
WrappingAdd(variant, x, y) ==
    IF ~AddOverflows(variant, x, y) THEN x + y
    ELSE IF y > 0 THEN (x + MinInt(variant)) + (y + MinInt(variant))
    ELSE (x - MinInt(variant)) + (y - MinInt(variant))

SubOverflows(variant, x, y) ==
    \/ y < 0 /\ x > MaxInt(variant) + y
    \/ y > 0 /\ x < MinInt(variant) + y

\* x.wrapping_sub(y)
WrappingSub(variant, x, y) ==
    IF ~SubOverflows(variant, x, y) THEN x - y
    ELSE IF y < 0 THEN (x + MinInt(variant)) - (y - MinInt(variant))
    ELSE (x - MinInt(variant)) - (y + MinInt(variant))

\* x.wrapping_mul(y) for y >= 0, by doubling
RECURSIVE WrappingMulNat(_, _, _)
WrappingMulNat(variant, x, y) ==
    IF y = 0 THEN 0
    ELSE LET h == WrappingMulNat(variant, WrappingAdd(variant, x, x), y \div 2)
         IN IF y % 2 = 1 THEN WrappingAdd(variant, h, x) ELSE h

\* x.wrapping_mul(y)
WrappingMul(variant, x, y) ==
    IF y >= 0 THEN WrappingMulNat(variant, x, y)
    ELSE IF y = MinInt(variant) THEN (IF x % 2 = 0 THEN 0 ELSE MinInt(variant))
    ELSE WrappingSub(variant, 0, WrappingMulNat(variant, x, -y))

\* Rust's integer division truncates toward zero (y # 0, not MIN / -1)
TruncDiv(x, y) ==
    IF y > 0
    THEN (IF x >= 0 THEN x \div y ELSE -((-(x + 1)) \div y) - (IF (-(x + 1)) % y = y - 1 THEN 1 ELSE 0))
    ELSE IF y = -2147483647 - 1 THEN (IF x = y THEN 1 ELSE 0)
    ELSE IF x >= 0 THEN -(x \div (-y))
    ELSE ((-(x + 1)) \div (-y)) + (IF (-(x + 1)) % (-y) = (-y) - 1 THEN 1 ELSE 0)

\* x * y overflows the variant
MulOverflows(variant, x, y) ==
    IF x = 0 \/ y = 0 THEN FALSE
    ELSE IF y = -1 THEN x = MinInt(variant)
    ELSE IF x = -1 THEN y = MinInt(variant)
    ELSE IF (x > 0) = (y > 0)
         THEN (IF x > 0 THEN x > MaxInt(variant) \div y
                        ELSE x < TruncDiv(MaxInt(variant), y))
         ELSE (IF x > 0 THEN y < TruncDiv(MinInt(variant), x)
                        ELSE x < TruncDiv(MinInt(variant), y))

\* the results of an operator that overflows (or not): the exact value, or a
\* panic (overflow checks on) and the wrapped value (overflow checks off)
Checked(variant, overflows, wrapped) ==
    IF overflows THEN {<<"panic">>, <<"ok", <<variant, wrapped>>>>}
    ELSE {<<"ok", <<variant, wrapped>>>>}

SameInt(l, r) == l[1] \in IntVariants /\ r[1] = l[1]

\* impl Add for Value
value_add(l, r) ==
    IF SameInt(l, r)
    THEN Checked(l[1], AddOverflows(l[1], l[2], r[2]), WrappingAdd(l[1], l[2], r[2]))
    ELSE IF l[1] = "String" /\ r[1] = "String" THEN {<<"ok", Str(l[2] \o r[2])>>}
    ELSE {<<"panic">>}

\* impl Sub for Value
value_sub(l, r) ==
    IF SameInt(l, r)
    THEN Checked(l[1], SubOverflows(l[1], l[2], r[2]), WrappingSub(l[1], l[2], r[2]))
    ELSE {<<"panic">>}

\* impl Mul for Value
value_mul(l, r) ==
    IF SameInt(l, r)
    THEN Checked(l[1], MulOverflows(l[1], l[2], r[2]), WrappingMul(l[1], l[2], r[2]))
    ELSE {<<"panic">>}

\* impl Div for Value: division by zero and MIN / -1 panic in every build
value_div(l, r) ==
    IF ~SameInt(l, r) THEN {<<"panic">>}
    ELSE IF r[2] = 0 \/ (l[2] = MinInt(l[1]) /\ r[2] = -1) THEN {<<"panic">>}
    ELSE {<<"ok", <<l[1], TruncDiv(l[2], r[2])>>>>}

\* impl Rem for Value
value_rem(l, r) ==
    IF ~SameInt(l, r) THEN {<<"panic">>}
    ELSE IF r[2] = 0 \/ (l[2] = MinInt(l[1]) /\ r[2] = -1) THEN {<<"panic">>}
    ELSE {<<"ok", <<l[1], l[2] - r[2] * TruncDiv(l[2], r[2])>>>>}

\* a shift amount outside 0..bits-1 overflows: a panic (written -1), or the
\* amount masked to the width
ShiftAmounts(variant, y) ==
    IF 0 <= y /\ y < Bits(variant) THEN {y}
    ELSE {-1, y % Bits(variant)}

\* x.wrapping_shl(k), 0 <= k < bits
RECURSIVE WrappingShl(_, _, _)
WrappingShl(variant, x, k) ==
    IF k = 0 THEN x ELSE WrappingShl(variant, WrappingAdd(variant, x, x), k - 1)

\* x >> k, 0 <= k < bits: arithmetic, rounding toward minus infinity
RECURSIVE ArithShr(_, _)
ArithShr(x, k) == IF k = 0 THEN x ELSE ArithShr(x \div 2, k - 1)

\* impl Shl for Value
value_shl(l, r) ==
    IF ~SameInt(l, r) THEN {<<"panic">>}
    ELSE {IF k = -1 THEN <<"panic">>
          ELSE <<"ok", <<l[1], WrappingShl(l[1], l[2], k)>>>> :
          k \in ShiftAmounts(l[1], r[2])}

\* impl Shr for Value
value_shr(l, r) ==
    IF ~SameInt(l, r) THEN {<<"panic">>}
    ELSE {IF k = -1 THEN <<"panic">>
          ELSE <<"ok", <<l[1], ArithShr(l[2], k)>>>> :
          k \in ShiftAmounts(l[1], r[2])}

\* impl Neg for Value
value_neg(v) ==
    IF v[1] \in IntVariants
    THEN Checked(v[1], v[2] = MinInt(v[1]), WrappingSub(v[1], 0, v[2]))
    ELSE {<<"panic">>}

\* impl Not for Value: logical on Bool, bitwise on integers
value_not(v) ==
    IF v[1] = "Bool" THEN {<<"ok", Bool(~v[2])>>}
    ELSE IF v[1] \in IntVariants THEN {<<"ok", <<v[1], (-1) - v[2]>>>>}
    ELSE {<<"panic">>}

\* is_truthy that takes every String for truthy: the test of emptiness is
\* part of what C13 rests on
is_truthy_any_string(v) ==
    CASE v[1] \in IntVariants -> v[2] # 0
      [] v[1] = "Bool" -> v[2]
      [] v[1] = "Char" -> v[2] # 0
      [] v[1] = "String" -> TRUE
      [] v[1] = "Hash" -> TRUE
      [] v[1] = "Container" -> v[2] # <<>>

\* Value::is_truthy
is_truthy(v) ==
    CASE v[1] \in IntVariants -> v[2] # 0
      [] v[1] = "Bool" -> v[2]
      [] v[1] = "Char" -> v[2] # 0
      [] v[1] = "String" -> v[2] # <<>>
      [] v[1] = "Hash" -> TRUE
      [] v[1] = "Container" -> v[2] # <<>>

\* Value::and
value_and(l, r) ==
    IF is_truthy(l) /\ is_truthy(r) THEN r
    ELSE IF ~is_truthy(l) THEN l
    ELSE r

\* Value::or
value_or(l, r) ==
    IF is_truthy(l) THEN l
    ELSE IF is_truthy(r) THEN r
    ELSE r

\* lexicographic order of two strings (str::cmp)
RECURSIVE StrCmp(_, _)
StrCmp(a, b) ==
    IF a = <<>> /\ b = <<>> THEN "Equal"
    ELSE IF a = <<>> THEN "Less"
    ELSE IF b = <<>> THEN "Greater"
    ELSE IF Head(a) < Head(b) THEN "Less"
    ELSE IF Head(a) > Head(b) THEN "Greater"
    ELSE StrCmp(Tail(a), Tail(b))

\* impl PartialOrd for Value: the orderings partial_cmp can return, or "panic".
\* The order of two different digests is not modelled: either may be less.
partial_cmp(l, r) ==
    IF l[1] # r[1] THEN {"panic"}
    ELSE CASE l[1] \in IntVariants \cup {"Char"} ->
                {IF l[2] < r[2] THEN "Less" ELSE IF l[2] = r[2] THEN "Equal" ELSE "Greater"}
           [] l[1] = "Bool" ->
                {IF l[2] = r[2] THEN "Equal" ELSE IF r[2] THEN "Less" ELSE "Greater"}
           [] l[1] = "String" -> {StrCmp(l[2], r[2])}
           [] l[1] = "Hash" -> IF l[2] = r[2] THEN {"Equal"} ELSE {"Less", "Greater"}
           [] OTHER -> {"panic"}

----------------------------------------------------------------------------
(* One iteration of the loop of Vm::exec, arm by arm.  An arm yields the    *)
(* set of outcomes of the iteration (one, unless the build decides):        *)
(*   frame           the top frame with the arm's writes to stack, locals   *)
(*   next_instr_ptr  the local next_instr_ptr                               *)
(*   next_frame      the local next_frame: Option<StackFrame>               *)
(*   return_value    the local return_value: Option<Option<Value>>          *)
(*   fail            None, or Some of <<"Err", message>> (bail!, ?) or of   *)
(*                   <<"Panic", message>> (unwrap, index, operator)         *)

\* Done that leaves the instruction pointer where it is
DoneInPlace(frame, next_instr_ptr) ==
    [frame |-> frame, next_instr_ptr |-> frame.instruction, next_frame |-> None,
     return_value |-> None, fail |-> None]

Done(frame, next_instr_ptr) ==
    [frame |-> frame, next_instr_ptr |-> next_instr_ptr, next_frame |-> None,
     return_value |-> None, fail |-> None]

Bail(frame, msg) ==
    [frame |-> frame, next_instr_ptr |-> frame.instruction + 1, next_frame |-> None,
     return_value |-> None, fail |-> Some(<<"Err", msg>>)]

Panic(frame, msg) ==
    [frame |-> frame, next_instr_ptr |-> frame.instruction + 1, next_frame |-> None,
     return_value |-> None, fail |-> Some(<<"Panic", msg>>)]

WithStack(frame, stack) == [frame EXCEPT !.stack = stack]

\* stack.push(v), then fall through to the next instruction
Push(frame, v) == Done(WithStack(frame, Append(frame.stack, v)), frame.instruction + 1)

\* Instr::LoadArg(i)
ExecLoadArg(frame, i) ==
    LET obj == frame.code_obj IN
    IF i >= obj.argcount THEN {Bail(frame, "argument index out of bounds")}
    ELSE IF i >= Len(obj.localnames) THEN {Panic(frame, "index out of bounds")}
    ELSE LET arg_name == obj.localnames[i + 1] IN
         IF arg_name \notin DOMAIN frame.locals
         THEN {Bail(frame, "argument is out of bounds")}
         ELSE {Push(frame, frame.locals[arg_name])}

\* Instr::LoadLocal(i)
ExecLoadLocal(frame, i) ==
    LET obj == frame.code_obj
        k == i + obj.argcount
    IN IF k >= Len(obj.localnames) THEN {Bail(frame, "local index out of bounds")}
       ELSE LET arg_name == obj.localnames[k + 1] IN
            IF arg_name \notin DOMAIN frame.locals
            THEN {Bail(frame, "local is out of bounds")}
            ELSE {Push(frame, frame.locals[arg_name])}

\* Instr::LoadLit(i)
ExecLoadLit(frame, i) ==
    IF i >= Len(frame.code_obj.litpool) THEN {Panic(frame, "index out of bounds")}
    ELSE {Push(frame, frame.code_obj.litpool[i + 1])}

\* Instr::StoreLocal(i)
ExecStoreLocal(frame, i) ==
    LET obj == frame.code_obj
        k == i + obj.argcount
    IN IF k >= Len(obj.localnames) THEN {Panic(frame, "index out of bounds")}
       ELSE IF frame.stack = <<>> THEN {Panic(frame, "unwrap on None")}
       ELSE {Done([frame EXCEPT
                      !.locals = MapInsert(@, obj.localnames[k + 1], Last(frame.stack)),
                      !.stack = ButLast(@)],
                  frame.instruction + 1)}

\* Instr::Pop: stack.pop() with the result dropped
ExecPop(frame) ==
    IF frame.stack = <<>> THEN {Done(frame, frame.instruction + 1)}
    ELSE {Done(WithStack(frame, ButLast(frame.stack)), frame.instruction + 1)}

\* Instr::Dup
ExecDup(frame) ==
    IF frame.stack = <<>> THEN {Panic(frame, "unwrap on None")}
    ELSE {Push(frame, Last(frame.stack))}

\* Instr::LoadFunc(hash)
ExecLoadFunc(frame, h) == {Push(frame, HashV(h))}

\* Instr::LoadDyn(name)
ExecLoadDyn(frame, name, d) ==
    LET found == get_code_object_by_name(d, name) IN
    IF found = None THEN {Bail(frame, "query failed")}
    ELSE {Push(frame, HashV(found[1]))}

\* SetUpParams that binds the values in the order they were pushed (the last
\* pop to the first parameter): the order of the pops is what C5 rests on
SetUpParamsPushOrder(code_obj, stack) ==
    LET n == IF code_obj.argcount <= Len(code_obj.localnames)
             THEN code_obj.argcount ELSE Len(code_obj.localnames)
        names == SubSeq(code_obj.localnames, 1, n)
        LastOf(name) == CHOOSE k \in 1..n :
                            /\ names[k] = name
                            /\ \A j \in (k + 1)..n : names[j] # name
    IN IF Len(stack) < n
       THEN [ok |-> FALSE, stack |-> <<>>, params |-> NoLocals]
       ELSE [ok |-> TRUE,
             stack |-> SubSeq(stack, 1, Len(stack) - n),
             params |-> [name \in {names[k] : k \in 1..n} |->
                            stack[Len(stack) - n + LastOf(name)]]]

\* The parameter set-up shared by Call and CallSelf: for each of the first
\* argcount localnames, in order, pop a value or bail on an empty stack.
\* The pops made before the bail stay made.
SetUpParams(code_obj, stack) ==
    LET n == IF code_obj.argcount <= Len(code_obj.localnames)
             THEN code_obj.argcount ELSE Len(code_obj.localnames)
        names == SubSeq(code_obj.localnames, 1, n)
        \* the k-th pop takes stack[Len(stack) - k + 1] for names[k]; the
        \* HashMap keeps the last value collected under a name
        LastOf(name) == CHOOSE k \in 1..n :
                            /\ names[k] = name
                            /\ \A j \in (k + 1)..n : names[j] # name
    IN IF Len(stack) < n
       THEN [ok |-> FALSE, stack |-> <<>>, params |-> NoLocals]
       ELSE [ok |-> TRUE,
             stack |-> SubSeq(stack, 1, Len(stack) - n),
             params |-> [name \in {names[k] : k \in 1..n} |->
                            stack[Len(stack) - LastOf(name) + 1]]]

\* Call that skips the call of a hash the store lacks and goes on: the `?`
\* on get_code_object is part of what C6 rests on
ExecCallSkipUnknown(frame, d) ==
    IF frame.stack = <<>>
    THEN {Bail(frame, "cannot call function: function hash not present")}
    ELSE LET top == Last(frame.stack)
             popped == WithStack(frame, ButLast(frame.stack))
         IN IF top[1] # "Hash"
            THEN {Bail(popped, "cannot call function: function hash not present")}
            ELSE LET found == get_code_object(d, top[2]) IN
                 IF found = None THEN {Done(popped, frame.instruction + 1)}
                 ELSE LET code_obj == found[1]
                          p == SetUpParams(code_obj, popped.stack)
                      IN IF ~p.ok
                         THEN {Bail(WithStack(frame, p.stack), "not enough arguments on stack")}
                         ELSE {[Done(WithStack(frame, p.stack), frame.instruction + 1)
                                EXCEPT !.next_frame =
                                    Some(StackFrame(code_obj, <<>>, p.params, 0))]}

\* Instr::Call
ExecCall(frame, d) ==
    IF frame.stack = <<>>
    THEN {Bail(frame, "cannot call function: function hash not present")}
    ELSE LET top == Last(frame.stack)
             popped == WithStack(frame, ButLast(frame.stack))
         IN IF top[1] # "Hash"
            THEN {Bail(popped, "cannot call function: function hash not present")}
            ELSE LET found == get_code_object(d, top[2]) IN
                 IF found = None THEN {Bail(popped, "query failed")}
                 ELSE LET code_obj == found[1]
                          p == SetUpParams(code_obj, popped.stack)
                      IN IF ~p.ok
                         THEN {Bail(WithStack(frame, p.stack), "not enough arguments on stack")}
                         ELSE {[Done(WithStack(frame, p.stack), frame.instruction + 1)
                                EXCEPT !.next_frame =
                                    Some(StackFrame(code_obj, <<>>, p.params, 0))]}

\* CallSelf that drops the top of the stack before the parameters, as Call
\* pops its hash: that no hash is popped is part of what C7 rests on
ExecCallSelfPopsHash(frame) ==
    LET code_obj == frame.code_obj
        p == SetUpParams(code_obj, IF frame.stack = <<>> THEN <<>> ELSE ButLast(frame.stack))
    IN IF ~p.ok
       THEN {Bail(WithStack(frame, p.stack), "not enough arguments on stack")}
       ELSE {[Done(WithStack(frame, p.stack), frame.instruction + 1)
              EXCEPT !.next_frame = Some(StackFrame(code_obj, <<>>, p.params, 0))]}

\* Instr::CallSelf
ExecCallSelf(frame) ==
    LET code_obj == frame.code_obj
        p == SetUpParams(code_obj, frame.stack)
    IN IF ~p.ok
       THEN {Bail(WithStack(frame, p.stack), "not enough arguments on stack")}
       ELSE {[Done(WithStack(frame, p.stack), frame.instruction + 1)
              EXCEPT !.next_frame = Some(StackFrame(code_obj, <<>>, p.params, 0))]}

\* Return that hands the top of the stack to the caller as ReturnVal does:
\* return_value = Some(None) is what C4 rests on
ExecReturnTop(frame) ==
    IF frame.stack = <<>>
    THEN {[Done(frame, frame.instruction + 1) EXCEPT !.return_value = Some(None)]}
    ELSE {[Done(WithStack(frame, ButLast(frame.stack)), frame.instruction + 1)
           EXCEPT !.return_value = Some(Some(Last(frame.stack)))]}

\* Instr::Return
ExecReturn(frame) ==
    {[Done(frame, frame.instruction + 1) EXCEPT !.return_value = Some(None)]}

\* Instr::ReturnVal
ExecReturnVal(frame) ==
    IF frame.stack = <<>>
    THEN {Bail(frame, "non-void function requires a return value on the stack")}
    ELSE {[Done(WithStack(frame, ButLast(frame.stack)), frame.instruction + 1)
           EXCEPT !.return_value = Some(Some(Last(frame.stack)))]}

\* frame.code_obj.labels[label]: the jump, or the panic of the index
JumpTo(frame, label) ==
    IF label >= Len(frame.code_obj.labels) THEN Panic(frame, "index out of bounds")
    ELSE Done(frame, frame.code_obj.labels[label + 1])

\* Instr::Jump(label)
ExecJump(frame, label) == {JumpTo(frame, label)}

\* JumpT that branches on any Bool
ExecJumpTOnAnyBool(frame, label) ==
    IF frame.stack = <<>> THEN {Bail(frame, "cannot perform jump: stack underflow")}
    ELSE LET top == Last(frame.stack)
             popped == WithStack(frame, ButLast(frame.stack))
         IN IF top[1] = "Bool"
            THEN (IF label >= Len(frame.code_obj.labels)
                  THEN {Bail(popped, "label does not exist")}
                  ELSE {Done(popped, frame.code_obj.labels[label + 1])})
            ELSE {Done(popped, frame.instruction + 1)}

\* Instr::JumpT(label)
ExecJumpT(frame, label) ==
    IF frame.stack = <<>> THEN {Bail(frame, "cannot perform jump: stack underflow")}
    ELSE LET top == Last(frame.stack)
             popped == WithStack(frame, ButLast(frame.stack))
         IN IF top = Bool(TRUE)
            THEN (IF label >= Len(frame.code_obj.labels)
                  THEN {Bail(popped, "label does not exist")}
                  ELSE {Done(popped, frame.code_obj.labels[label + 1])})
            ELSE {Done(popped, frame.instruction + 1)}

\* Instr::JumpF(label)
ExecJumpF(frame, label) ==
    IF frame.stack = <<>> THEN {Bail(frame, "cannot perform jump: stack underflow")}
    ELSE LET top == Last(frame.stack)
             popped == WithStack(frame, ButLast(frame.stack))
         IN IF top = Bool(FALSE) THEN {JumpTo(popped, label)}
            ELSE {Done(popped, frame.instruction + 1)}

\* lhs OP rhs for the six comparison jumps: <<"ok", taken>> or <<"panic">>
Compare(op, lhs, rhs) ==
    CASE op = "JumpEq" -> {<<"ok", lhs = rhs>>}
      [] op = "JumpNe" -> {<<"ok", lhs # rhs>>}
      [] OTHER ->
           {IF o = "panic" THEN <<"panic">>
            ELSE CASE op = "JumpGt" -> <<"ok", o = "Greater">>
                   [] op = "JumpGe" -> <<"ok", o \in {"Greater", "Equal"}>>
                   [] op = "JumpLt" -> <<"ok", o = "Less">>
                   [] op = "JumpLe" -> <<"ok", o \in {"Less", "Equal"}>> :
            o \in partial_cmp(lhs, rhs)}

CompareJumps == {"JumpEq", "JumpNe", "JumpGt", "JumpGe", "JumpLt", "JumpLe"}

\* comparison jumps that take the top for lhs and the value under it for rhs
ExecJumpCmpSwapped(frame, op, label) ==
    IF Len(frame.stack) < 2
    THEN {Bail(frame, "cannot perform comparison: stack underflow")}
    ELSE LET lhs == frame.stack[Len(frame.stack)]
             rhs == frame.stack[Len(frame.stack) - 1]
             popped == WithStack(frame, SubSeq(frame.stack, 1, Len(frame.stack) - 2))
         IN {IF c[1] = "panic" THEN Panic(popped, "cannot compare")
             ELSE IF c[2] THEN JumpTo(popped, label)
             ELSE Done(popped, frame.instruction + 1) :
             c \in Compare(op, lhs, rhs)}

\* Instr::JumpEq(label) .. Instr::JumpLe(label)
ExecJumpCmp(frame, op, label) ==
    IF Len(frame.stack) < 2
    THEN {Bail(frame, "cannot perform comparison: stack underflow")}
    ELSE LET rhs == frame.stack[Len(frame.stack)]
             lhs == frame.stack[Len(frame.stack) - 1]
             popped == WithStack(frame, SubSeq(frame.stack, 1, Len(frame.stack) - 2))
         IN {IF c[1] = "panic" THEN Panic(popped, "cannot compare")
             ELSE IF c[2] THEN JumpTo(popped, label)
             ELSE Done(popped, frame.instruction + 1) :
             c \in Compare(op, lhs, rhs)}

\* lhs OP rhs for the ten binary operators
ApplyBinOp(op, lhs, rhs) ==
    CASE op = "Add" -> value_add(lhs, rhs)
      [] op = "Mul" -> value_mul(lhs, rhs)
      [] op = "Div" -> value_div(lhs, rhs)
      [] op = "Sub" -> value_sub(lhs, rhs)
      [] op = "Mod" -> value_rem(lhs, rhs)
      [] op = "Shl" -> value_shl(lhs, rhs)
      [] op = "Shr" -> value_shr(lhs, rhs)
      [] op = "And" -> {<<"ok", value_and(lhs, rhs)>>}
      [] op = "Eq" -> {<<"ok", Bool(lhs = rhs)>>}
      [] op = "Or" -> {<<"ok", value_or(lhs, rhs)>>}

\* Instr::BinOp(op) taking the top of the stack for its left operand
ExecBinOpSwapped(frame, op) ==
    IF Len(frame.stack) < 2
    THEN {Bail(frame, "cannot perform binary operation: stack underflow")}
    ELSE LET lhs == frame.stack[Len(frame.stack)]
             rhs == frame.stack[Len(frame.stack) - 1]
             popped == WithStack(frame, SubSeq(frame.stack, 1, Len(frame.stack) - 2))
         IN {IF r[1] = "panic" THEN Panic(popped, "operator") ELSE Push(popped, r[2]) :
             r \in ApplyBinOp(op, lhs, rhs)}

\* Instr::BinOp(op)
ExecBinOp(frame, op) ==
    IF Len(frame.stack) < 2
    THEN {Bail(frame, "cannot perform binary operation: stack underflow")}
    ELSE LET rhs == frame.stack[Len(frame.stack)]
             lhs == frame.stack[Len(frame.stack) - 1]
             popped == WithStack(frame, SubSeq(frame.stack, 1, Len(frame.stack) - 2))
         IN {IF r[1] = "panic" THEN Panic(popped, "operator") ELSE Push(popped, r[2]) :
             r \in ApplyBinOp(op, lhs, rhs)}

\* Instr::UnaryOp(op)
ExecUnaryOp(frame, op) ==
    IF frame.stack = <<>>
    THEN {Bail(frame, "cannot perform binary operation: stack underflow")}
    ELSE LET arg == Last(frame.stack)
             popped == WithStack(frame, ButLast(frame.stack))
         IN {IF r[1] = "panic" THEN Panic(popped, "operator") ELSE Push(popped, r[2]) :
             r \in (IF op = "Not" THEN value_not(arg) ELSE value_neg(arg))}

\* Instr::Dbg
ExecDbg(frame) ==
    IF frame.stack = <<>> THEN {Bail(frame, "stack underflow: cannot 'dbg' with empty stack")}
    ELSE {Done(frame, frame.instruction + 1)}

\* Instr::Nop
ExecNop(frame) == {Done(frame, frame.instruction + 1)}

----------------------------------------------------------------------------
(* The state of run_main_function *)

NotCalled == [kind |-> "new", code |-> 0, msg |-> ""]
Running == [kind |-> "running", code |-> 0, msg |-> ""]
Ok(code) == [kind |-> "Ok", code |-> code, msg |-> ""]
Err(msg) == [kind |-> "Err", code |-> 0, msg |-> msg]
Panicked(msg) == [kind |-> "Panic", code |-> 0, msg |-> msg]

\* the loop of exec is at its head with a frame to run
InLoop == result.kind = "running" /\ call_stack # <<>>

call_depth == Len(call_stack)
Top == call_stack[call_depth]

\* frame.instruction >= frame.code_obj.code.len()
PastEnd(frame) == frame.instruction >= Len(frame.code_obj.code)

\* frame.code_obj.code[frame.instruction]
InstrAt(frame) == frame.code_obj.code[frame.instruction + 1]

\* the loop is about to run an instruction with this mnemonic
Executing(mnemonic) == InLoop /\ ~PastEnd(Top) /\ InstrAt(Top)[1] = mnemonic

\* The history variable follows the call stack: a pushed frame is logged with
\* the instruction pointer of the call and the caller's stack and locals as
\* the call left them; a popped frame's entry is dropped.
LogOf(stack_after) ==
    IF Len(stack_after) > call_depth
    THEN Append(call_log,
                [site |-> Top.instruction,
                 stack |-> stack_after[call_depth].stack,
                 locals |-> stack_after[call_depth].locals])
    ELSE SubSeq(call_log, 1, Len(stack_after))

\* The explored part of the state space: the call stack and every operand
\* stack stay within the bounds given.
Within(bounds, stack_after) ==
    /\ Len(stack_after) <= bounds.depth
    /\ \A k \in 1..Len(stack_after) : Len(stack_after[k].stack) <= bounds.stack

\* Break that returns Ok(0) whatever the status code: the status code that
\* main's ReturnVal sets is what C1 rests on
BreakWithoutCode(stack_after, status_code) ==
    /\ call_stack' = (IF stack_after = <<>> THEN <<>> ELSE ButLast(stack_after))
    /\ result' = Ok(0)

\* `break`, then the code after the loop: the frame on top is popped
\* (debug = false) and Ok(status_code) returned
Break(stack_after, status_code) ==
    /\ call_stack' = (IF stack_after = <<>> THEN <<>> ELSE ButLast(stack_after))
    /\ result' = Ok(status_code)

\* back to the head of the loop: with no frame left the loop ends and the
\* code after it returns Ok(0)
Continue(stack_after) ==
    IF stack_after = <<>> THEN Break(stack_after, 0)
    ELSE call_stack' = stack_after /\ result' = result

\* MainReturn that takes the exit code of any returned value, 0 unless it is
\* an I32: the test of the variant is what C2 rests on
MainReturnUnchecked(stack_after, val) ==
    Break(stack_after, IF val[1] = "I32" THEN val[2] ELSE 0)

\* Some(Some(val)) with call_depth == 1: the main function returns
MainReturn(stack_after, val) ==
    IF val[1] = "I32" THEN Break(stack_after, val[2])
    ELSE /\ call_stack' = stack_after
         /\ result' = Err("main function can only return integers")

\* CalleeReturn that pushes the value onto the bottom frame, not onto the
\* caller: the index call_depth - 2 is what C3 rests on
CalleeReturnToBottom(stack_after, val) ==
    LET popped == ButLast(stack_after) IN
    Continue([popped EXCEPT ![1].stack = Append(@, val)])

\* Some(Some(val)) with call_depth > 1: the frame is popped and the value
\* pushed onto self.call_stack[call_depth - 2].stack
CalleeReturn(stack_after, val) ==
    LET popped == ButLast(stack_after) IN
    Continue([popped EXCEPT ![call_depth - 1].stack = Append(@, val)])

\* Commit with one environment for all frames: the locals the top frame has
\* after the step are written to the frames below it too
CommitSharedLocals(o) ==
    IF o.fail # None
    THEN /\ call_stack' = [call_stack EXCEPT ![call_depth] = o.frame]
         /\ result' = (IF o.fail[1][1] = "Err" THEN Err(o.fail[1][2])
                       ELSE Panicked(o.fail[1][2]))
    ELSE LET written == [k \in 1..call_depth |->
                            IF k = call_depth
                            THEN [o.frame EXCEPT !.instruction = o.next_instr_ptr]
                            ELSE [call_stack[k] EXCEPT !.locals = o.frame.locals]]
             pushed == written \o o.next_frame
         IN IF o.return_value = None THEN Continue(pushed)
            ELSE IF o.return_value = Some(None) THEN Continue(ButLast(pushed))
            ELSE LET val == o.return_value[1][1] IN
                 IF call_depth = 1 THEN MainReturn(pushed, val)
                 ELSE CalleeReturn(pushed, val)

\* The rest of the iteration after the match: the instruction pointer is
\* written, a frame is pushed, a return is handled.  A failure in the match
\* leaves exec at once: the frame keeps the writes made before it.
Commit(o) ==
    IF o.fail # None
    THEN /\ call_stack' = [call_stack EXCEPT ![call_depth] = o.frame]
         /\ result' = (IF o.fail[1][1] = "Err" THEN Err(o.fail[1][2])
                       ELSE Panicked(o.fail[1][2]))
    ELSE LET written == [call_stack EXCEPT ![call_depth] =
                            [o.frame EXCEPT !.instruction = o.next_instr_ptr]]
             pushed == written \o o.next_frame
         IN IF o.return_value = None THEN Continue(pushed)
            ELSE IF o.return_value = Some(None) THEN Continue(ButLast(pushed))
            ELSE LET val == o.return_value[1][1] IN
                 IF call_depth = 1 THEN MainReturn(pushed, val)
                 ELSE CalleeReturn(pushed, val)

\* what a finished call of run_main_function leaves: its result, the call
\* stack and the store of the Vm
RunsAfter ==
    IF result'.kind \in {"Ok", "Err", "Panic"}
    THEN Append(runs, [result |-> result', call_stack |-> call_stack', db |-> db'])
    ELSE runs

\* an iteration that also binds the name g to the object it runs
IterateStoring(outcomes, bounds) ==
    \E o \in outcomes :
        /\ Commit(o)
        /\ Within(bounds, call_stack')
        /\ call_log' = LogOf(call_stack')
        /\ executed' = Some([instr |-> InstrAt(Top), call_depth |-> call_depth])
        /\ db' = create_alias(db, "g", hash(Top.code_obj)).db
        /\ runs' = RunsAfter

\* one iteration of the loop that takes the arm with these outcomes
Iterate(outcomes, bounds) ==
    \E o \in outcomes :
        /\ Commit(o)
        /\ Within(bounds, call_stack')
        /\ call_log' = LogOf(call_stack')
        /\ executed' = Some([instr |-> InstrAt(Top), call_depth |-> call_depth])
        /\ UNCHANGED db
        /\ runs' = RunsAfter

----------------------------------------------------------------------------
(* Actions *)

\* Vm::run_main_function, up to the call of exec
RunMain ==
    /\ result.kind = "new"
    /\ LET found == get_main_object(db) IN
       IF found = None
       THEN /\ result' = Err("query failed: no main object found")
            /\ UNCHANGED <<call_stack, call_log, executed>>
       ELSE /\ call_stack' = Append(call_stack, StackFrame(found[2], <<>>, NoLocals, 0))
            /\ call_log' = Append(call_log, [site |-> -1, stack |-> <<>>, locals |-> NoLocals])
            /\ result' = Running
            /\ executed' = None
    /\ UNCHANGED db
    /\ runs' = RunsAfter

\* "Handle the case of a forgotten return statement": the instruction pointer
\* of the top frame is past the end of its code
ForgottenReturn ==
    /\ InLoop
    /\ PastEnd(Top)
    /\ Break(call_stack, 0)
    /\ call_log' = LogOf(call_stack')
    /\ executed' = Some([instr |-> <<"break">>, call_depth |-> call_depth])
    /\ UNCHANGED db
    /\ runs' = RunsAfter

LoadArg(bounds) ==
    Executing("LoadArg") /\ Iterate(ExecLoadArg(Top, InstrAt(Top)[2]), bounds)

LoadLocal(bounds) ==
    Executing("LoadLocal") /\ Iterate(ExecLoadLocal(Top, InstrAt(Top)[2]), bounds)

LoadLit(bounds) ==
    Executing("LoadLit") /\ Iterate(ExecLoadLit(Top, InstrAt(Top)[2]), bounds)

StoreLocal(bounds) ==
    Executing("StoreLocal") /\ Iterate(ExecStoreLocal(Top, InstrAt(Top)[2]), bounds)

Pop(bounds) ==
    Executing("Pop") /\ Iterate(ExecPop(Top), bounds)

Dup(bounds) ==
    Executing("Dup") /\ Iterate(ExecDup(Top), bounds)

LoadFunc(bounds) ==
    Executing("LoadFunc") /\ Iterate(ExecLoadFunc(Top, InstrAt(Top)[2]), bounds)

LoadDyn(bounds) ==
    Executing("LoadDyn") /\ Iterate(ExecLoadDyn(Top, InstrAt(Top)[2], db), bounds)

Call(bounds) ==
    Executing("Call") /\ Iterate(ExecCall(Top, db), bounds)

CallSelf(bounds) ==
    Executing("CallSelf") /\ Iterate(ExecCallSelf(Top), bounds)

Return(bounds) ==
    Executing("Return") /\ Iterate(ExecReturn(Top), bounds)

ReturnVal(bounds) ==
    Executing("ReturnVal") /\ Iterate(ExecReturnVal(Top), bounds)

Jump(bounds) ==
    Executing("Jump") /\ Iterate(ExecJump(Top, InstrAt(Top)[2]), bounds)

JumpT(bounds) ==
    Executing("JumpT") /\ Iterate(ExecJumpT(Top, InstrAt(Top)[2]), bounds)

JumpF(bounds) ==
    Executing("JumpF") /\ Iterate(ExecJumpF(Top, InstrAt(Top)[2]), bounds)

JumpCmp(bounds) ==
    /\ InLoop
    /\ ~PastEnd(Top)
    /\ InstrAt(Top)[1] \in CompareJumps
    /\ Iterate(ExecJumpCmp(Top, InstrAt(Top)[1], InstrAt(Top)[2]), bounds)

BinOp(bounds) ==
    Executing("BinOp") /\ Iterate(ExecBinOp(Top, InstrAt(Top)[2]), bounds)

UnaryOp(bounds) ==
    Executing("UnaryOp") /\ Iterate(ExecUnaryOp(Top, InstrAt(Top)[2]), bounds)

Dbg(bounds) ==
    Executing("Dbg") /\ Iterate(ExecDbg(Top), bounds)

Nop(bounds) ==
    Executing("Nop") /\ Iterate(ExecNop(Top), bounds)

\* run_main_function on one Vm, explored within the bounds
Run(bounds) ==
    \/ RunMain
    \/ ForgottenReturn
    \/ LoadArg(bounds)
    \/ LoadLocal(bounds)
    \/ LoadLit(bounds)
    \/ StoreLocal(bounds)
    \/ Pop(bounds)
    \/ Dup(bounds)
    \/ LoadFunc(bounds)
    \/ LoadDyn(bounds)
    \/ Call(bounds)
    \/ CallSelf(bounds)
    \/ Return(bounds)
    \/ ReturnVal(bounds)
    \/ Jump(bounds)
    \/ JumpT(bounds)
    \/ JumpF(bounds)
    \/ JumpCmp(bounds)
    \/ BinOp(bounds)
    \/ UnaryOp(bounds)
    \/ Dbg(bounds)
    \/ Nop(bounds)

----------------------------------------------------------------------------
(* Programs.  The functions below are stored under their names before main  *)
(* is; they are the callees of the tests of vm/mod.rs and callees that      *)
(* tell the order of arguments, return nothing, or forget to return.        *)

\* func_b of test_main_return_code: returns 4 + 3
func_b ==
    CodeObject(<<I32(4), I32(3)>>, 0, <<>>, <<>>,
               << <<"LoadLit", 0>>, <<"LoadLit", 1>>, <<"BinOp", "Add">>, <<"ReturnVal">> >>)

\* func_b of test_void_funccall: leaves 4 + 3 on its stack and returns nothing
void_b ==
    CodeObject(<<I32(4), I32(3)>>, 0, <<>>, <<>>,
               << <<"LoadLit", 0>>, <<"LoadLit", 1>>, <<"BinOp", "Add">>, <<"Return">> >>)

\* returns x0 - x1
sub2 ==
    CodeObject(<<>>, 2, <<"x0", "x1">>, <<>>,
               << <<"LoadArg", 0>>, <<"LoadArg", 1>>, <<"BinOp", "Sub">>, <<"ReturnVal">> >>)

\* loads its argument and runs past the end of its code
fall ==
    CodeObject(<<>>, 1, <<"x0">>, <<>>, << <<"LoadArg", 0>> >>)

\* fib of test_fib
fib ==
    CodeObject(<<I32(0), I32(1), I32(2)>>, 1, <<"n">>, <<18>>,
               << <<"LoadArg", 0>>, <<"LoadLit", 0>>, <<"BinOp", "Eq">>,
                  <<"LoadArg", 0>>, <<"LoadLit", 1>>, <<"BinOp", "Eq">>,
                  <<"BinOp", "Or">>, <<"JumpT", 0>>,
                  <<"LoadArg", 0>>, <<"LoadLit", 1>>, <<"BinOp", "Sub">>, <<"CallSelf">>,
                  <<"LoadArg", 0>>, <<"LoadLit", 2>>, <<"BinOp", "Sub">>, <<"CallSelf">>,
                  <<"BinOp", "Add">>, <<"ReturnVal">>,
                  <<"LoadArg", 0>>, <<"ReturnVal">> >>)

\* rec2(x0, x1) = if x0 == 0 then x1 else rec2(x0 - 1, x1 + x0), by CallSelf
rec2 ==
    CodeObject(<<I32(0), I32(1)>>, 2, <<"x0", "x1">>, <<11>>,
               << <<"LoadArg", 0>>, <<"LoadLit", 0>>, <<"JumpEq", 0>>,
                  <<"LoadArg", 1>>, <<"LoadArg", 0>>, <<"BinOp", "Add">>,
                  <<"LoadArg", 0>>, <<"LoadLit", 1>>, <<"BinOp", "Sub">>,
                  <<"CallSelf">>, <<"ReturnVal">>,
                  <<"LoadArg", 1>>, <<"ReturnVal">> >>)

\* an object that is never stored: its hash is unknown to the store
stranger == CodeObject(<<>>, 0, <<>>, <<>>, << <<"Nop">> >>)

Library ==
    << <<"func_b", func_b>>, <<"void_b", void_b>>, <<"sub2", sub2>>,
       <<"fall", fall>>, <<"fib", fib>>, <<"rec2", rec2>> >>

\* a main without arguments, with one local
Main(litpool, labels, code) == CodeObject(litpool, 0, <<"x0">>, labels, code)

\* a main as the tests of vm/mod.rs write it: no arguments, locals or labels
TestMain(litpool, code) == CodeObject(litpool, 0, <<>>, <<>>, code)

\* The mains of the tests of vm/mod.rs, of the scenarios of the
\* specification, and mains that recurse or push without end.
TestMains ==
    { \* func_a of test_main_return_code: 70
      TestMain(<<I32(10)>>,
           << <<"LoadFunc", hash(func_b)>>, <<"Call">>, <<"LoadLit", 0>>,
              <<"BinOp", "Mul">>, <<"ReturnVal">> >>),
      \* func_a of test_void_funccall: 0
      TestMain(<<>>, << <<"LoadFunc", hash(void_b)>>, <<"Call">>, <<"Return">> >>),
      \* test_main_returns_1
      TestMain(<<>>, << <<"ReturnVal">> >>),
      \* test_main_returns_2
      TestMain(<<Str(<<98, 114, 101, 97, 107>>)>>, << <<"LoadLit", 0>>, <<"ReturnVal">> >>),
      \* test_main_returns_3
      TestMain(<<I32(0)>>, << <<"LoadLit", 0>>, <<"ReturnVal">> >>),
      \* test_fib, fib(4)
      TestMain(<<I32(4)>>,
           << <<"LoadLit", 0>>, <<"LoadFunc", hash(fib)>>, <<"Call">>, <<"ReturnVal">> >>),
      \* scenario 1: 6 + 7
      Main(<<I32(6), I32(7)>>, <<>>,
           << <<"LoadLit", 0>>, <<"LoadLit", 1>>, <<"BinOp", "Add">>, <<"ReturnVal">> >>),
      \* scenario 2: 10 - 3
      Main(<<I32(10), I32(3)>>, <<>>,
           << <<"LoadLit", 0>>, <<"LoadLit", 1>>, <<"BinOp", "Sub">>, <<"ReturnVal">> >>),
      \* rec2(2, 0) through the name table, the result kept in a local: 3
      Main(<<I32(0), I32(2)>>, <<>>,
           << <<"LoadLit", 0>>, <<"LoadLit", 1>>, <<"LoadDyn", "rec2">>, <<"Call">>,
              <<"Dup">>, <<"StoreLocal", 0>>, <<"Pop">>, <<"LoadLocal", 0>>,
              <<"Dbg">>, <<"Nop">>, <<"ReturnVal">> >>),
      \* branches: -(1) is not 1, so 2 is returned
      Main(<<I32(1), I32(2), Bool(TRUE), Bool(FALSE)>>, <<2, 5, 8, 10>>,
           << <<"LoadLit", 2>>, <<"JumpT", 0>>,
              <<"LoadLit", 3>>, <<"JumpF", 1>>, <<"Nop">>,
              <<"LoadLit", 0>>, <<"UnaryOp", "Neg">>, <<"Jump", 2>>,
              <<"LoadLit", 0>>, <<"JumpLt", 3>>, <<"LoadLit", 1>>, <<"ReturnVal">> >>),
      \* falls off the end after a call of fall
      Main(<<I32(5)>>, <<>>,
           << <<"LoadLit", 0>>, <<"LoadFunc", hash(fall)>>, <<"Call">> >>),
      \* unbounded recursion
      Main(<<>>, <<>>, << <<"CallSelf">> >>),
      \* unbounded growth of the operand stack
      Main(<<I32(1)>>, <<0>>, << <<"LoadLit", 0>>, <<"Jump", 0>> >>) }

\* Database after the inserts of a program, in order
RECURSIVE InsertAll(_, _)
InsertAll(d, entries) ==
    IF entries = <<>> THEN d
    ELSE InsertAll(insert_code_object_with_name(d, Head(entries)[2], Head(entries)[1]).db,
                   Tail(entries))

\* a Vm on a store filled with a program, before run_main_function is called
InitWith(programs) ==
    /\ \E entries \in programs : db = InsertAll(EmptyDb, entries)
    /\ call_stack = <<>>
    /\ result = NotCalled
    /\ call_log = <<>>
    /\ executed = None
    /\ runs = <<>>

\* the test mains, each over the callees
TestPrograms == {Library \o << <<"main", m>> >> : m \in TestMains}

\* A Vm running a test program with room for more than STACK_CAP frames and
\* more than STACK_CAP operands.
DeepBounds == [depth |-> STACK_CAP + 1, stack |-> STACK_CAP + 1]
InitDeep == InitWith(TestPrograms)
NextDeep == Run(DeepBounds)
SpecDeep == InitDeep /\ [][NextDeep]_vars

----------------------------------------------------------------------------
(* Generated programs: code that first sets up an operand stack and then    *)
(* runs any body of up to MaxBody instructions.  The code is main (run at   *)
(* depth 1 with no arguments) or the callee g of a main that calls it with  *)
(* the arguments x0 = 1 and x1 = 2.                                         *)

SeqsUpTo(S, n) == UNION {[1..k -> S] : k \in 0..n}

GenLits == <<I32(1), I32(2), Bool(TRUE)>>

\* the operand stacks a body starts on: empty, values only, a hash on top of
\* too few, enough and more than enough arguments, a hash the store lacks
Setups ==
    { <<>>,
      << <<"LoadLit", 0>> >>,
      << <<"LoadLit", 0>>, <<"LoadLit", 1>> >>,
      << <<"LoadLit", 2>> >>,
      << <<"LoadFunc", hash(void_b)>> >>,
      << <<"LoadLit", 0>>, <<"LoadFunc", hash(sub2)>> >>,
      << <<"LoadLit", 0>>, <<"LoadLit", 1>>, <<"LoadFunc", hash(sub2)>> >>,
      << <<"LoadLit", 2>>, <<"LoadLit", 0>>, <<"LoadLit", 1>>, <<"LoadFunc", hash(sub2)>> >>,
      << <<"LoadLit", 0>>, <<"LoadDyn", "fall">> >>,
      << <<"LoadLit", 0>>, <<"LoadFunc", hash(stranger)>> >> }

BodyInstrs ==
    { <<"LoadArg", 0>>, <<"StoreLocal", 0>>,
      <<"Pop">>, <<"Dup">>, <<"Call">>, <<"CallSelf">>, <<"Return">>, <<"ReturnVal">>,
      <<"Jump", 0>>, <<"JumpT", 0>>, <<"JumpF", 0>>, <<"BinOp", "Add">> }

GenCode == {p \o b : p \in Setups, b \in SeqsUpTo(BodyInstrs, MaxBody)}

\* the generated code as main
GenMain(code) == Main(GenLits, <<0>>, code)

\* the generated code as a callee with two parameters and one local
GenCallee(code) == CodeObject(GenLits, 2, <<"x0", "x1", "x2">>, <<0>>, code)

\* main of the generated callee: g(1, 2) over a value that stays on main's
\* stack, the result added to it
Driver(g) ==
    Main(GenLits, <<>>,
         << <<"LoadLit", 1>>, <<"LoadLit", 1>>, <<"LoadLit", 0>>, <<"LoadFunc", hash(g)>>,
            <<"Call">>, <<"BinOp", "Add">>, <<"ReturnVal">> >>)

GenPrograms ==
    {Library \o << <<"main", GenMain(c)>> >> : c \in GenCode}
    \cup {Library \o << <<"g", GenCallee(c)>>, <<"main", Driver(GenCallee(c))>> >> : c \in GenCode}

\* A Vm running a test program or a generated one, explored up to MaxDepth
\* frames of up to MaxStack operands.
Bounds == [depth |-> MaxDepth, stack |-> MaxStack]
Init == InitWith(TestPrograms \cup GenPrograms)
Next == Run(Bounds)
Spec == Init /\ [][Next]_vars

----------------------------------------------------------------------------
(* Straight-line programs: a main without jumps and calls.  The loop of     *)
(* exec runs one iteration after another, so its steps are weakly fair.     *)

\* Longest body of a straight-line main.
MaxLine == 2

\* the instructions that neither jump nor call
LineInstrs ==
    { <<"LoadArg", 0>>, <<"LoadLocal", 0>>, <<"LoadLit", 0>>, <<"StoreLocal", 0>>,
      <<"Pop">>, <<"Dup">>, <<"LoadFunc", hash(sub2)>>, <<"LoadDyn", "fall">>,
      <<"Return">>, <<"ReturnVal">>, <<"BinOp", "Add">>, <<"UnaryOp", "Neg">>,
      <<"Dbg">>, <<"Nop">> }

\* main: none, one or two values loaded, then any body
LinePrograms ==
    {Library \o << <<"main", Main(GenLits, <<>>, p \o b)>> >> :
        p \in {<<>>, << <<"LoadLit", 0>> >>, << <<"LoadLit", 0>>, <<"LoadLit", 1>> >>},
        b \in SeqsUpTo(LineInstrs, MaxLine)}

\* one frame, and as many operands as a straight-line main can push
LineBounds == [depth |-> 1, stack |-> MaxLine + 2]
InitLine == InitWith(LinePrograms)
NextLine ==
    \/ RunMain
    \/ ForgottenReturn
    \/ LoadArg(LineBounds)
    \/ LoadLocal(LineBounds)
    \/ LoadLit(LineBounds)
    \/ StoreLocal(LineBounds)
    \/ Pop(LineBounds)
    \/ Dup(LineBounds)
    \/ LoadFunc(LineBounds)
    \/ LoadDyn(LineBounds)
    \/ Return(LineBounds)
    \/ ReturnVal(LineBounds)
    \/ BinOp(LineBounds)
    \/ UnaryOp(LineBounds)
    \/ Dbg(LineBounds)
    \/ Nop(LineBounds)
SpecLine == InitLine /\ [][NextLine]_vars /\ WF_vars(NextLine)

\* run_main_function has returned or panicked
Ended == result.kind \in {"Ok", "Err", "Panic"}

\* C40: termination: every step either fails or sets the instruction
\* pointer of the top frame; in a program without jumps, Call and CallSelf
\* each iteration of the loop ends the run or leaves main, the only frame,
\* one instruction further, at most at the end of its code, and the run
\* ends (with Ok or an error) after at most len(code) iterations.
C40_StraightLineTerminates ==
    /\ [][InLoop => \/ Ended'
                    \/ /\ ~PastEnd(Top)
                       /\ Len(call_stack') = 1
                       /\ call_stack'[1].instruction = Top.instruction + 1
                       /\ call_stack'[1].instruction <= Len(Top.code_obj.code)]_vars
    /\ <>Ended

\* main has run its two loads and its two instructions, one after the other,
\* and ended by running off its code
C40_Witness ==
    /\ result = Ok(0)
    /\ executed = Some([instr |-> <<"break">>, call_depth |-> 1])
    /\ get_main_object(db)[2].code =
          << <<"LoadLit", 0>>, <<"LoadLit", 1>>, <<"BinOp", "Add">>, <<"Dup">> >>

----------------------------------------------------------------------------
(* Returns *)

\* the last iteration ran this instruction in the frame at this depth
Ran(instr, depth) == executed = Some([instr |-> instr, call_depth |-> depth])

\* C1: run_main_function returns Ok(c) whenever the frame at the bottom of
\* the call stack (main) executes ReturnVal with I32(c) on top of its operand
\* stack, and returns Ok(0) when main finishes without a value: by Return, or
\* by its instruction pointer running past the end of its code.
C1_MainExitCode ==
    [][/\ (Executing("ReturnVal") /\ call_depth = 1 /\ Top.stack # <<>>
              /\ Last(Top.stack)[1] = "I32")
          => result' = Ok(Last(Top.stack)[2])
       /\ (Executing("Return") /\ call_depth = 1) => result' = Ok(0)
       /\ (InLoop /\ call_depth = 1 /\ PastEnd(Top)) => result' = Ok(0)]_vars

\* main has returned 70 by ReturnVal (test_main_return_code)
C1_Witness == result = Ok(70) /\ Ran(<<"ReturnVal">>, 1)

\* C2: if the main frame executes ReturnVal and the popped value is not an
\* I32, run_main_function returns an error, and the error is final: no exit
\* code follows it.
C2_MainNonIntegerIsError ==
    [][/\ (Executing("ReturnVal") /\ call_depth = 1 /\ Top.stack # <<>>
              /\ Last(Top.stack)[1] # "I32")
          => result'.kind = "Err"
       /\ result.kind = "Err" => result' = result]_vars

\* main has returned a String literal (test_main_returns_2) and got the error
C2_Witness ==
    /\ result = Err("main function can only return integers")
    /\ Ran(<<"ReturnVal">>, 1)
    /\ get_main_object(db)[2].litpool[1][1] = "String"

\* C3: when a frame at call depth > 1 executes ReturnVal with v on top of its
\* operand stack, the frame is removed from the call stack, v is pushed onto
\* the operand stack of its immediate caller and every frame below the caller
\* is unchanged, and the caller goes on at the instruction that follows the
\* Call or CallSelf that created the callee.
C3_ReturnValToCaller ==
    [][(Executing("ReturnVal") /\ call_depth > 1 /\ Top.stack # <<>>)
       => LET d == call_depth
              v == Last(Top.stack)
              site == call_log[d].site
              caller == call_stack[d - 1]
          IN /\ result' = result
             /\ Len(call_stack') = d - 1
             /\ call_stack'[d - 1] = [caller EXCEPT !.stack = Append(caller.stack, v)]
             /\ \A k \in 1..(d - 2) : call_stack'[k] = call_stack[k]
             /\ caller.code_obj.code[site + 1][1] \in {"Call", "CallSelf"}
             /\ call_stack'[d - 1].instruction = site + 1]_vars

\* a frame at depth 3 has returned a value to its caller at depth 2, which
\* runs on above an untouched main
C3_Witness ==
    /\ Ran(<<"ReturnVal">>, 3)
    /\ InLoop
    /\ call_depth = 2
    /\ Top.stack # <<>>

\* C4: Return discards the current frame together with every value left on
\* its operand stack: after a callee executes Return the caller's frame is as
\* it was, its operand stack and locals exactly what they were right after
\* the call popped the hash and the arguments, and nothing is pushed.
C4_ReturnDiscardsFrame ==
    [][(Executing("Return") /\ call_depth > 1)
       => LET d == call_depth IN
          /\ result' = result
          /\ Len(call_stack') = d - 1
          /\ \A k \in 1..(d - 1) : call_stack'[k] = call_stack[k]
          /\ call_stack'[d - 1].stack = call_log[d].stack
          /\ call_stack'[d - 1].locals = call_log[d].locals]_vars

\* void_b has returned with 7 left on its stack (test_void_funccall): main
\* has the empty stack the call left it
C4_Witness ==
    /\ Ran(<<"Return">>, 2)
    /\ InLoop
    /\ call_depth = 1
    /\ Top.stack = <<>>
    /\ Top.code_obj.code[Top.instruction] = <<"Call">>

----------------------------------------------------------------------------
(* Calls *)

\* a Call whose operands are there: a Hash of the store on top of at least
\* argcount values
CallCanProceed ==
    /\ Executing("Call")
    /\ Top.stack # <<>>
    /\ Last(Top.stack)[1] = "Hash"
    /\ get_code_object(db, Last(Top.stack)[2]) # None
    /\ Len(Top.stack) - 1 >= get_code_object(db, Last(Top.stack)[2])[1].argcount

\* C5: Call pops a Hash h, then pops exactly callee.argcount values from the
\* caller's operand stack, binding the k-th popped value to localnames[k]
\* (first pop -> first parameter name); the pushed callee frame has an empty
\* operand stack, instruction pointer 0, the code object stored under h, and
\* locals containing exactly those argcount bindings.
C5_CallBindsParameters ==
    [][CallCanProceed
       => LET d == call_depth
              s == Top.stack
              callee == get_code_object(db, Last(s)[2])[1]
              n == callee.argcount
              new == call_stack'[d + 1]
          IN /\ result' = result
             /\ Len(call_stack') = d + 1
             /\ call_stack'[d].stack = SubSeq(s, 1, Len(s) - 1 - n)
             /\ new.stack = <<>>
             /\ new.instruction = 0
             /\ new.code_obj = callee
             /\ DOMAIN new.locals = {callee.localnames[k] : k \in 1..n}
             /\ Cardinality(DOMAIN new.locals) = n
             /\ \A k \in 1..n : new.locals[callee.localnames[k]] = s[Len(s) - k]]_vars

\* main has called sub2 with two different values: the new frame is at its
\* first instruction, the value pushed last is x0
C5_Witness ==
    /\ Ran(<<"Call">>, 1)
    /\ InLoop
    /\ call_depth = 2
    /\ Top.code_obj = sub2
    /\ Top.instruction = 0
    /\ Top.locals["x0"] # Top.locals["x1"]
    /\ call_stack[1].stack # <<>>

\* C6: Call is fatal for the execution, exec returning an error without a
\* callee frame pushed, when the top of the operand stack is absent or not a
\* Hash, when the popped hash is not in the store, or when fewer than
\* callee.argcount values remain on the caller's operand stack.
C6_CallFailureIsFatal ==
    [][(Executing("Call") /\ ~CallCanProceed)
       => /\ result'.kind = "Err"
          /\ Len(call_stack') = call_depth]_vars

\* a Call of a hash the store lacks has failed
C6_Witness ==
    /\ Ran(<<"Call">>, 1)
    /\ result = Err("query failed")
    /\ call_depth = 1

\* C7: CallSelf behaves like Call targeting the current frame's own code
\* object: no Hash is popped, argcount values are popped into the parameters
\* in first-pop-first-parameter order whatever the store holds, and a new
\* frame for the same code object is pushed with an empty operand stack and
\* instruction pointer 0.
C7_CallSelfBindsParameters ==
    [][(Executing("CallSelf") /\ Len(Top.stack) >= Top.code_obj.argcount)
       => LET d == call_depth
              s == Top.stack
              self == Top.code_obj
              n == self.argcount
              new == call_stack'[d + 1]
          IN /\ result' = result
             /\ db' = db
             /\ Len(call_stack') = d + 1
             /\ call_stack'[d].stack = SubSeq(s, 1, Len(s) - n)
             /\ new.stack = <<>>
             /\ new.instruction = 0
             /\ new.code_obj = self
             /\ DOMAIN new.locals = {self.localnames[k] : k \in 1..n}
             /\ Cardinality(DOMAIN new.locals) = n
             /\ \A k \in 1..n : new.locals[self.localnames[k]] = s[Len(s) - k + 1]]_vars

\* a callee with two parameters has called itself with a Hash on top of its
\* stack: the Hash is x0 of the new frame
C7_Witness ==
    /\ Ran(<<"CallSelf">>, 2)
    /\ InLoop
    /\ call_depth = 3
    /\ Top.code_obj = call_stack[2].code_obj
    /\ Top.instruction = 0
    /\ DOMAIN Top.locals = {"x0", "x1"}
    /\ Top.locals["x0"][1] = "Hash"
    /\ Top.locals["x1"][1] = "I32"

----------------------------------------------------------------------------
(* Caps and underflow *)

\* C8: the call stack is capped: in every reachable state its depth is at
\* most call_stack_cap, an execution that would push a frame beyond the cap
\* ending with an error instead.
C8_CallStackCapped == Len(call_stack) <= call_stack_cap

\* C9: each frame's operand stack is capped: in every reachable state its
\* length is at most data_stack_cap, an instruction that would push beyond
\* the cap yielding an error instead.
C9_OperandStackCapped ==
    \A k \in 1..Len(call_stack) : Len(call_stack[k].stack) <= data_stack_cap

\* the loop is about to run an instruction on fewer operands than it takes
Underflows ==
    /\ InLoop
    /\ ~PastEnd(Top)
    /\ \/ /\ InstrAt(Top)[1] \in {"Pop", "Dup", "StoreLocal", "ReturnVal", "JumpT", "JumpF"}
          /\ Top.stack = <<>>
       \/ /\ InstrAt(Top)[1] \in {"BinOp"} \cup CompareJumps
          /\ Len(Top.stack) < 2

\* C10: stack underflow aborts the execution with an error returned to the
\* caller for every instruction that consumes or inspects operands: Pop, Dup,
\* StoreLocal, ReturnVal, JumpT and JumpF on an empty stack, BinOp and the
\* comparison jumps on fewer than two values.
C10_UnderflowIsError == [][Underflows => result'.kind = "Err"]_vars

----------------------------------------------------------------------------
(* One instruction on chosen operands: a main that loads none, one or two   *)
(* values of its literal pool and then runs one instruction on them.  Its   *)
(* only label is the end of its code, its only local is x0.                 *)

\* Largest index and label id an instruction of these mains carries.
MaxIndex == 1

\* values of every modelled variant, falsy and truthy, and one at i8::MAX
Operands ==
    { I32(0), I32(3), <<"I8", 0>>, <<"I8", 5>>, <<"I8", 127>>,
      Bool(FALSE), Bool(TRUE), Char(0), Char(97),
      Str(<<>>), Str(<<97>>), HashV(hash(sub2)),
      Container(<<>>), Container(<<I32(0)>>) }

OperandStacks ==
    {<<>>} \cup {<<a>> : a \in Operands} \cup {<<a, b>> : a \in Operands, b \in Operands}
    \cup {<<Bool(TRUE), I32(3), I32(0)>>, <<I32(3), Bool(TRUE), Bool(FALSE)>>}

\* enum BinOp, enum UnaryOp
BinOps == {"Add", "Mul", "Div", "Sub", "Mod", "Shl", "Shr", "And", "Eq", "Or"}
UnaryOps == {"Not", "Neg"}

\* the instructions that read operands, indexes or labels
OneInstrs ==
    {<<"BinOp", op>> : op \in BinOps}
    \cup {<<"UnaryOp", op>> : op \in UnaryOps}
    \cup {<<j, k>> : j \in CompareJumps \cup {"Jump", "JumpT", "JumpF"}, k \in 0..MaxIndex}
    \cup {<<m, i>> : m \in {"LoadArg", "LoadLocal", "StoreLocal", "LoadLit"}, i \in 0..MaxIndex}
    \cup {<<"Pop">>, <<"Dup">>, <<"Call">>}

\* main: load the operands, run the instruction, then a nop that a jump to
\* the label, the end of the code, skips
OpMain(operands, instr) ==
    CodeObject(operands, 0, <<"x0">>, <<Len(operands) + 2>>,
               [k \in 1..Len(operands) |-> <<"LoadLit", k - 1>>] \o <<instr, <<"Nop">>>>)

OpPrograms ==
    {Library \o << <<"main", OpMain(s, i)>> >> : s \in OperandStacks, i \in OneInstrs}

\* A Vm running a test program or one instruction on chosen operands.
InitOps == InitWith(TestPrograms \cup OpPrograms)
NextOps == Run(Bounds)
SpecOps == InitOps /\ [][NextOps]_vars

----------------------------------------------------------------------------
(* Indexes, operators *)

\* the loop is about to run an instruction whose index is out of bounds; a
\* conditional jump counts when its condition is on top of the stack
IndexOutOfBounds ==
    /\ InLoop
    /\ ~PastEnd(Top)
    /\ LET i == InstrAt(Top)
           obj == Top.code_obj
       IN \/ i[1] = "LoadArg" /\ i[2] >= obj.argcount
          \/ i[1] \in {"LoadLocal", "StoreLocal"} /\ obj.argcount + i[2] >= Len(obj.localnames)
          \/ i[1] = "LoadLit" /\ i[2] >= Len(obj.litpool)
          \/ i[1] = "Jump" /\ i[2] >= Len(obj.labels)
          \/ /\ i[1] \in {"JumpT", "JumpF"}
             /\ i[2] >= Len(obj.labels)
             /\ Top.stack # <<>>
             /\ Last(Top.stack) = Bool(i[1] = "JumpT")

\* C11: an out-of-bounds index aborts the execution with an error returned to
\* the caller: LoadArg i with i >= argcount, LoadLocal and StoreLocal i with
\* argcount + i >= len(localnames), LoadLit i with i >= len(litpool) and a
\* jump whose label id is >= len(labels) all leave an error result.
C11_IndexOutOfBoundsIsError == [][IndexOutOfBounds => result'.kind = "Err"]_vars

\* the loop is about to apply an arithmetic operator or an ordering
\* comparison to two values of different variants
MixedOperands ==
    /\ InLoop
    /\ ~PastEnd(Top)
    /\ Len(Top.stack) >= 2
    /\ Top.stack[Len(Top.stack)][1] # Top.stack[Len(Top.stack) - 1][1]
    /\ \/ /\ InstrAt(Top)[1] = "BinOp"
          /\ InstrAt(Top)[2] \in {"Add", "Sub", "Mul", "Div", "Mod", "Shl", "Shr"}
       \/ InstrAt(Top)[1] \in {"JumpGt", "JumpGe", "JumpLt", "JumpLe"}

\* C12: applying an arithmetic operator or an ordering comparison to two
\* values of different variants is a fatal error surfaced to the caller of
\* run_main_function as an error.
C12_MixedVariantsIsError == [][MixedOperands => result'.kind = "Err"]_vars

\* numeric zero, Bool false, the NUL char, the empty string, the empty container
Falsy(v) ==
    \/ v[1] \in IntVariants /\ v[2] = 0
    \/ v = Bool(FALSE)
    \/ v = Char(0)
    \/ v = Str(<<>>)
    \/ v = Container(<<>>)

\* C13: for all operands lhs (pushed first) and rhs, BinOp And pushes rhs if
\* both are truthy and otherwise the first falsy one, BinOp Or pushes the
\* first truthy one and otherwise rhs, where a value is falsy exactly when it
\* is a numeric zero, Bool false, the NUL char, the empty string or the empty
\* container.
C13_AndOrByTruthiness ==
    [][(Executing("BinOp") /\ InstrAt(Top)[2] \in {"And", "Or"} /\ Len(Top.stack) >= 2)
       => LET s == Top.stack
              rhs == s[Len(s)]
              lhs == s[Len(s) - 1]
              pushed == IF InstrAt(Top)[2] = "And"
                        THEN (IF ~Falsy(lhs) /\ ~Falsy(rhs) THEN rhs
                              ELSE IF Falsy(lhs) THEN lhs ELSE rhs)
                        ELSE (IF ~Falsy(lhs) THEN lhs ELSE rhs)
          IN /\ result' = result
             /\ call_stack'[call_depth].stack = Append(SubSeq(s, 1, Len(s) - 2), pushed)]_vars

\* 'a' And the empty container has pushed the empty container
C13_Witness ==
    /\ Ran(<<"BinOp", "And">>, 1)
    /\ InLoop
    /\ Top.code_obj.litpool = <<Char(97), Container(<<>>)>>
    /\ Top.stack = <<Container(<<>>)>>

----------------------------------------------------------------------------
(* The store on its own: a Database::temp() and calls of its functions in   *)
(* any order.  executed keeps the last call and what it returned.           *)

\* names the calls use: main, a valid name and one that is not an identifier
StoreNames == {"main", "g", "hello name"}

\* code objects the calls use
StoreObjects == {sub2, fall}

Called(call, returned) == Some([call |-> call, returned |-> returned])

\* db.insert_code_object(&obj, false), as test_insert_codeobj calls it
InsertCodeObject ==
    \E obj \in StoreObjects :
        LET r == insert_code_object(db, obj, FALSE)
        IN /\ db' = r.db
           /\ executed' = Called(<<"insert_code_object", obj>>,
                                 IF r.ok THEN <<"Ok", r.hash>> ELSE <<"Err">>)
           /\ UNCHANGED <<call_stack, result, call_log, runs>>

InsertCodeObjectWithName ==
    \E obj \in StoreObjects, name \in StoreNames :
        LET r == insert_code_object_with_name(db, obj, name)
        IN /\ db' = r.db
           /\ executed' = Called(<<"insert_code_object_with_name", obj, name>>,
                                 IF r.ok THEN <<"Ok", r.hash>> ELSE <<"Err">>)
           /\ UNCHANGED <<call_stack, result, call_log, runs>>

CreateAlias ==
    \E name \in StoreNames, obj \in StoreObjects :
        LET r == create_alias(db, name, hash(obj))
        IN /\ db' = r.db
           /\ executed' = Called(<<"create_alias", name, hash(obj)>>,
                                 IF r.ok THEN <<"Ok">> ELSE <<"Err">>)
           /\ UNCHANGED <<call_stack, result, call_log, runs>>

\* Database::temp(): the empty tables; no Vm runs
InitStore ==
    /\ db = EmptyDb
    /\ call_stack = <<>>
    /\ result = NotCalled
    /\ call_log = <<>>
    /\ executed = None
    /\ runs = <<>>

NextStore == InsertCodeObject \/ InsertCodeObjectWithName \/ CreateAlias
SpecStore == InitStore /\ [][NextStore]_vars

----------------------------------------------------------------------------
(* Store *)

\* the code object is in the objects table
Stored(d, obj) == \E k \in 1..Len(d.code_objs) : d.code_objs[k].hash = hash(obj)

\* the hashes the names table holds for a name
BoundTo(d, name) == {d.names[k].hash : k \in {j \in 1..Len(d.names) : d.names[j].name = name}}

\* the last call inserted this object, by either function of the store
Inserted(e, obj) ==
    /\ e # None
    /\ e[1].call[1] \in {"insert_code_object", "insert_code_object_with_name"}
    /\ e[1].call[2] = obj

\* C14: inserting a code object whose hash is stored already, by
\* insert_code_object or by insert_code_object_with_name under a name that
\* is valid and not bound, succeeds, returns the hash of the first insert
\* and leaves the objects table as it was.
C14_InsertIsIdempotent ==
    [][\A obj \in StoreObjects :
          (/\ Stored(db, obj)
           /\ Inserted(executed', obj)
           /\ \/ executed'[1].call[1] = "insert_code_object"
              \/ /\ is_valid_name(executed'[1].call[3])
                 /\ BoundTo(db, executed'[1].call[3]) = {})
          => /\ executed'[1].returned = <<"Ok", hash(obj)>>
             /\ db'.code_objs = db.code_objs]_vars

\* the last call binds this name: insert_code_object_with_name or create_alias
Binds(e, name) ==
    /\ e # None
    /\ \/ e[1].call[1] = "insert_code_object_with_name" /\ e[1].call[3] = name
       \/ e[1].call[1] = "create_alias" /\ e[1].call[2] = name

\* C15: insert_code_object_with_name and create_alias fail on a name that is
\* bound, and the name is bound to the same hash afterwards.
C15_BoundNameStaysBound ==
    [][\A name \in StoreNames :
          (BoundTo(db, name) # {} /\ Binds(executed', name))
          => /\ executed'[1].returned = <<"Err">>
             /\ BoundTo(db', name) = BoundTo(db, name)]_vars

\* create_alias of the bound name main to another stored object has failed
\* and main is bound as before
C15_Witness ==
    /\ executed = Called(<<"create_alias", "main", hash(fall)>>, <<"Err">>)
    /\ BoundTo(db, "main") = {hash(sub2)}
    /\ Stored(db, fall)

\* C16: every name in the names table satisfies is_valid_name, whatever
\* insert_code_object_with_name and create_alias calls were made.
C16_StoredNamesAreValid ==
    \A k \in 1..Len(db.names) : is_valid_name(db.names[k].name)

\* C17: get_main_object succeeds iff the name main is bound, and then
\* returns the hash and the object get_code_object_by_name("main") returns.
C17_MainIsTheNameMain ==
    /\ (get_main_object(db) # None) <=> (BoundTo(db, "main") # {})
    /\ get_main_object(db) # None
       => get_main_object(db) = get_code_object_by_name(db, "main")

\* C32: referential integrity of the store: after any calls of
\* insert_code_object_with_name and create_alias, failed or not, every bound
\* name resolves: get_code_object_by_name returns (h, obj) with h the hash
\* the name is bound to, obj the object stored under h and obj.hash() = h;
\* no name is bound to a hash that is not stored.
C32_BoundNamesResolve ==
    \A k \in 1..Len(db.names) :
        LET found == get_code_object_by_name(db, db.names[k].name)
        IN /\ found # None
           /\ BoundTo(db, db.names[k].name) = {found[1]}
           /\ get_code_object(db, found[1]) = Some(found[2])
           /\ hash(found[2]) = found[1]

\* create_alias of g to the hash of an object that is not stored has
\* failed, with main bound to a stored object
C32_Witness ==
    /\ executed = Called(<<"create_alias", "g", hash(fall)>>, <<"Err">>)
    /\ ~Stored(db, fall)
    /\ BoundTo(db, "main") = {hash(sub2)}
    /\ BoundTo(db, "g") = {}

\* the last call was insert_code_object_with_name and it returned Err
InsertWithNameFailed(e) ==
    /\ e # None
    /\ e[1].call[1] = "insert_code_object_with_name"
    /\ e[1].returned = <<"Err">>

\* C37: insert_code_object_with_name is atomic: when it returns an error
\* (invalid name, name bound already, or object stored already) the objects
\* table and the names table are as they were before the call, and
\* get_main_object returns what it returned before.
C37_InsertWithNameIsAtomic ==
    [][InsertWithNameFailed(executed')
          => /\ db'.code_objs = db.code_objs
             /\ db'.names = db.names
             /\ get_main_object(db') = get_main_object(db)]_vars

----------------------------------------------------------------------------
(* The link pass: DynCallResolver and Toposort.  A HashMap<String, T> is a  *)
(* function from names, a HashSet a set, Result a record with ok or kind.   *)

\* DynCallResolver::solve_node: the names of the LoadDyn of a node's code
solve_node(objs, node) ==
    {objs[node].code[k][2] : k \in {j \in 1..Len(objs[node].code) : objs[node].code[j][1] = "LoadDyn"}}

\* DynCallResolver::solve: the dependences of every node
solve(objs) == [node \in DOMAIN objs |-> solve_node(objs, node)]

\* the orders of a set: the sequences that hold each element once
Orders(S) == {o \in [1..Cardinality(S) -> S] : \A x \in S : \E k \in DOMAIN o : o[k] = x}

\* toposort(&deps): the linear orders of the nodes in which each function
\* comes before the functions of the input it depends on (a dependence on
\* itself or on a name that is no node orders nothing); an error when there
\* is none
toposort(graph) ==
    {o \in Orders(DOMAIN graph) :
        \A i \in DOMAIN o, j \in DOMAIN o :
            (o[j] \in graph[o[i]] /\ i # j) => i < j}

\* the possible results of the for loop of visit over the results of its
\* visits: the first failure in the order of iteration, which is any
Visits(results) ==
    {r \in {"Ok", "Err", "Panic"} :
        IF r = "Ok" THEN \A rs \in results : \E x \in rs : x.kind = "Ok"
        ELSE \E rs \in results : \E x \in rs : x.kind = r}

\* Toposort::visit: Ok((marks, sorted)), Err (cycle), or a panic of unwrap()
RECURSIVE visit(_, _, _, _)
visit(node, marks, sorted, graph) ==
    IF node \notin DOMAIN marks THEN {[kind |-> "Panic"]}
    ELSE IF marks[node] = "Final"
    THEN {[kind |-> "Ok", marks |-> <<>>, sorted |-> sorted]}
    ELSE IF marks[node] = "Temp" THEN {[kind |-> "Err"]}
    ELSE LET temp == [marks EXCEPT ![node] = "Temp"]
             loop == Visits({visit(in_node, temp, sorted, graph) : in_node \in graph[node]})
         IN {IF r = "Ok"
             THEN [kind |-> "Ok", marks |-> [temp EXCEPT ![node] = "Final"],
                   sorted |-> <<node>> \o sorted]
             ELSE [kind |-> r] : r \in loop}

\* Toposort::unmarked: the nodes find_map may return
unmarked(marks) == {node \in DOMAIN marks : marks[node] \in {"Unmarked", "Temp"}}

\* the while loop of Toposort::new from the marks and the order it has
RECURSIVE NewLoop(_, _, _)
NewLoop(marks, sorted, graph) ==
    IF unmarked(marks) = {} THEN {<<"Ok", sorted>>}
    ELSE UNION {
           UNION {IF r.kind = "Ok" THEN NewLoop(r.marks, r.sorted, graph) ELSE {<<r.kind>>} :
                  r \in visit(node, [marks EXCEPT ![node] = "Temp"], sorted, graph)} :
           node \in unmarked(marks)}

\* Toposort::new: the results it can return, "Ok" (with the order it had
\* built and drops), "Err" or "Panic"
Toposort_new(graph) == NewLoop([k \in DOMAIN graph |-> "Unmarked"], <<>>, graph)

\* DynCallResolver::new: the resolvers it can return, none when it fails
DynCallResolver_new(nodes) ==
    {[objs |-> nodes, deps |-> solve(nodes), hash_order |-> o] : o \in toposort(solve(nodes))}

\* the hash entered for a name hashes the object with LoadDyn the way it came
link_hash_of_input(obj, new_obj) == hash(obj)

\* hashed.insert(name.clone(), new_obj.hash()?): the hash of the rewritten object
link_hash(obj, new_obj) == hash(new_obj)

\* the closure of resolve_dyn_calls on hash_order[k], then on the names
\* before it: Ok(new_objs) or Err
RECURSIVE ResolveFrom(_, _, _, _)
ResolveFrom(self, k, hashed, new_objs) ==
    IF k = 0 THEN [ok |-> TRUE, objs |-> new_objs]
    ELSE LET name == self.hash_order[k]
         IN IF name \notin DOMAIN self.objs THEN [ok |-> FALSE]
            ELSE LET obj == self.objs[name]
                     IsDyn(i) == obj.code[i][1] = "LoadDyn"
                     new_instrs == [i \in 1..Len(obj.code) |->
                                       IF IsDyn(i) THEN <<"LoadFunc", hashed[obj.code[i][2]]>>
                                       ELSE obj.code[i]]
                     new_obj == [obj EXCEPT !.code = new_instrs]
                 IN IF \E i \in 1..Len(obj.code) : IsDyn(i) /\ obj.code[i][2] \notin DOMAIN hashed
                    THEN [ok |-> FALSE]
                    ELSE ResolveFrom(self, k - 1,
                                     MapInsert(hashed, name, link_hash(obj, new_obj)),
                                     MapInsert(new_objs, name, new_obj))

\* DynCallResolver::resolve_dyn_calls: hash_order from its end
resolve_dyn_calls(self) == ResolveFrom(self, Len(self.hash_order), <<>>, <<>>)

\* the names of the functions of a file, and a name no function has
LinkNames == {"main", "g", "fib"}
Missing == "nope"

\* a function as the parser hands it over
LinkObject(code) == CodeObject(<<>>, 0, <<>>, <<>>, code)

\* bodies: no call, a call of itself, a call by name, calls of two names
LinkObjects ==
    {LinkObject(<<<<"Return">>>>), LinkObject(<<<<"CallSelf">>, <<"Return">>>>)}
    \cup {LinkObject(<<<<"LoadDyn", n>>, <<"Call">>, <<"Return">>>>) : n \in LinkNames \cup {Missing}}
    \cup {LinkObject(<<<<"LoadDyn", "g">>, <<"Call">>, <<"LoadDyn", "fib">>, <<"Call">>, <<"Return">>>>)}

\* Vec<Parse> with distinct names, as func_name -> code_obj
LinkInputs == UNION {[S -> LinkObjects] : S \in SUBSET LinkNames}

New ==
    /\ executed = None
    /\ \E nodes \in LinkInputs :
          \/ \E self \in DynCallResolver_new(nodes) :
                executed' = Called(<<"DynCallResolver::new", nodes>>, <<"Ok", self>>)
          \/ /\ DynCallResolver_new(nodes) = {}
             /\ executed' = Called(<<"DynCallResolver::new", nodes>>, <<"Err">>)
    /\ UNCHANGED <<db, call_stack, result, call_log, runs>>

ResolveDynCalls ==
    /\ executed # None
    /\ executed[1].call[1] = "DynCallResolver::new"
    /\ executed[1].returned[1] = "Ok"
    /\ LET self == executed[1].returned[2]
           r == resolve_dyn_calls(self)
       IN executed' = Called(<<"resolve_dyn_calls", self>>,
                             IF r.ok THEN <<"Ok", r.objs>> ELSE <<"Err">>)
    /\ UNCHANGED <<db, call_stack, result, call_log, runs>>

ToposortNew ==
    /\ executed = None
    /\ \E nodes \in LinkInputs :
          \E r \in Toposort_new(solve(nodes)) :
             executed' = Called(<<"Toposort::new", solve(nodes)>>, r)
    /\ UNCHANGED <<db, call_stack, result, call_log, runs>>

InitLink == InitStore
NextLink == New \/ ResolveDynCalls \/ ToposortNew
SpecLink == InitLink /\ [][NextLink]_vars

----------------------------------------------------------------------------
(* Link *)

\* the last call was this function
LastCall(f) == executed # None /\ executed[1].call[1] = f

\* C18: in the output of resolve_dyn_calls every LoadDyn(n) of the input
\* with n a name of the input is LoadFunc(h), h the hash of the object the
\* output holds under n, every other instruction is as it was, and every
\* LoadDyn of the output names no function of the input.
C18_LinkClosure ==
    (LastCall("resolve_dyn_calls") /\ executed[1].returned[1] = "Ok")
    => LET objs == executed[1].call[2].objs
           out == executed[1].returned[2]
       IN /\ DOMAIN out = DOMAIN objs
          /\ \A name \in DOMAIN objs :
                /\ Len(out[name].code) = Len(objs[name].code)
                /\ \A k \in 1..Len(objs[name].code) :
                      LET i == objs[name].code[k]
                          o == out[name].code[k]
                      IN /\ (i[1] = "LoadDyn" /\ i[2] \in DOMAIN objs)
                            => o = <<"LoadFunc", hash(out[i[2]])>>
                         /\ i[1] # "LoadDyn" => o = i
                         /\ o[1] = "LoadDyn" => o[2] \notin DOMAIN objs

\* main calls g by name and g calls fib by name: main is linked to the hash
\* of the linked g
C18_Witness ==
    /\ LastCall("resolve_dyn_calls")
    /\ executed[1].returned[1] = "Ok"
    /\ DOMAIN executed[1].returned[2] = LinkNames
    /\ executed[1].call[2].objs["main"].code[1] = <<"LoadDyn", "g">>
    /\ executed[1].call[2].objs["g"].code[1] = <<"LoadDyn", "fib">>
    /\ executed[1].returned[2]["g"].code[1][1] = "LoadFunc"
    /\ executed[1].returned[2]["main"].code[1] = <<"LoadFunc", hash(executed[1].returned[2]["g"])>>

\* some function calls by name, and every name called is no function of the input
OnlyMissing(objs) ==
    /\ \E name \in DOMAIN objs : solve_node(objs, name) # {}
    /\ \A name \in DOMAIN objs : solve_node(objs, name) \cap DOMAIN objs = {}

\* C19: a LoadDyn whose name is not in the input set does not make the link
\* pass fail: DynCallResolver::new succeeds, resolve_dyn_calls succeeds and
\* the instruction is LoadDyn in the output.
C19_MissingNameStaysDynamic ==
    /\ (LastCall("DynCallResolver::new") /\ OnlyMissing(executed[1].call[2]))
       => executed[1].returned[1] = "Ok"
    /\ (LastCall("resolve_dyn_calls") /\ OnlyMissing(executed[1].call[2].objs))
       => /\ executed[1].returned[1] = "Ok"
          /\ executed[1].returned[2] = executed[1].call[2].objs

\* the nodes a node depends on, itself and the names of no node left out
Edges(graph, x) == (graph[x] \cap DOMAIN graph) \ {x}

\* the nodes reached from the set S in at most n more steps
RECURSIVE Reach(_, _, _)
Reach(graph, S, n) ==
    IF n = 0 THEN S
    ELSE Reach(graph, S \cup UNION {Edges(graph, x) : x \in S}, n - 1)

\* the dependency graph without its self-loops has a cycle
HasCycle(graph) ==
    \E x \in DOMAIN graph : x \in Reach(graph, Edges(graph, x), Cardinality(DOMAIN graph))

\* C20: the topological sort of the dependency graph fails iff the graph
\* without its self-loops has a cycle, and then with the cycle error.
C20_FailsIffCycle ==
    LastCall("Toposort::new")
    => (executed[1].returned = <<"Err">>) <=> HasCycle(executed[1].call[2])

\* C24: the engine performs no writes: every iteration of exec, whatever the
\* instruction and whether it ends in success, an error or a panic, leaves
\* the objects and the names of the store as they were
C24_ExecWritesNothing == [][InLoop => db' = db]_vars

\* a Call has failed and ended the run over a store that holds objects and
\* names
C24_Witness ==
    /\ db.code_objs # <<>>
    /\ db.names # <<>>
    /\ executed # None
    /\ executed[1].instr[1] = "Call"
    /\ result.kind = "Err"

----------------------------------------------------------------------------
(* The assembler (asm/parser.rs).  A line is the sequence of its words, as  *)
(* split_whitespace gives them, and a word the sequence of its characters.  *)

\* the characters of the words the parser matches on
Chars ==
    ("load_arg" :> <<"l", "o", "a", "d", "_", "a", "r", "g">>) @@
    ("load_loc" :> <<"l", "o", "a", "d", "_", "l", "o", "c">>) @@
    ("load_lit" :> <<"l", "o", "a", "d", "_", "l", "i", "t">>) @@
    ("store_loc" :> <<"s", "t", "o", "r", "e", "_", "l", "o", "c">>) @@
    ("pop" :> <<"p", "o", "p">>) @@
    ("dup" :> <<"d", "u", "p">>) @@
    ("load_func" :> <<"l", "o", "a", "d", "_", "f", "u", "n", "c">>) @@
    ("load_dyn" :> <<"l", "o", "a", "d", "_", "d", "y", "n">>) @@
    ("jmp" :> <<"j", "m", "p">>) @@
    ("jmp_t" :> <<"j", "m", "p", "_", "t">>) @@
    ("jmp_f" :> <<"j", "m", "p", "_", "f">>) @@
    ("jmp_eq" :> <<"j", "m", "p", "_", "e", "q">>) @@
    ("jmp_ne" :> <<"j", "m", "p", "_", "n", "e">>) @@
    ("jmp_gt" :> <<"j", "m", "p", "_", "g", "t">>) @@
    ("jmp_ge" :> <<"j", "m", "p", "_", "g", "e">>) @@
    ("jmp_lt" :> <<"j", "m", "p", "_", "l", "t">>) @@
    ("jmp_le" :> <<"j", "m", "p", "_", "l", "e">>) @@
    ("call" :> <<"c", "a", "l", "l">>) @@
    ("call_self" :> <<"c", "a", "l", "l", "_", "s", "e", "l", "f">>) @@
    ("ret" :> <<"r", "e", "t">>) @@
    ("ret_val" :> <<"r", "e", "t", "_", "v", "a", "l">>) @@
    ("add" :> <<"a", "d", "d">>) @@
    ("mul" :> <<"m", "u", "l">>) @@
    ("div" :> <<"d", "i", "v">>) @@
    ("sub" :> <<"s", "u", "b">>) @@
    ("mod" :> <<"m", "o", "d">>) @@
    ("shl" :> <<"s", "h", "l">>) @@
    ("shr" :> <<"s", "h", "r">>) @@
    ("and" :> <<"a", "n", "d">>) @@
    ("or" :> <<"o", "r">>) @@
    ("eq" :> <<"e", "q">>) @@
    ("not" :> <<"n", "o", "t">>) @@
    ("neg" :> <<"n", "e", "g">>) @@
    ("nop" :> <<"n", "o", "p">>) @@
    ("dbg" :> <<"d", "b", "g">>) @@
    ("0x" :> <<"0", "x">>) @@
    ("lit" :> <<"l", "i", "t">>) @@
    ("true" :> <<"t", "r", "u", "e">>) @@
    ("false" :> <<"f", "a", "l", "s", "e">>)

\* str::parse::<usize>: an optional plus sign, then digits only
DigitValue == [c \in Digits |-> CHOOSE n \in 0..9 : ToString(n) = c]
RECURSIVE Decimal(_)
Decimal(ds) == IF ds = <<>> THEN 0 ELSE 10 * Decimal(ButLast(ds)) + DigitValue[Last(ds)]
ParseUsize(w) ==
    LET ds == IF w # <<>> /\ w[1] = "+" THEN Tail(w) ELSE w
    IN IF ds # <<>> /\ \A k \in 1..Len(ds) : ds[k] \in Digits
       THEN Some(Decimal(ds)) ELSE None

\* the function g of the round trip file as it is linked and stored
RoundG ==
    CodeObject(<<Bool(TRUE)>>, 1, <<"x0", "x1", "x2">>, <<6, 7>>,
               << <<"LoadArg", 0>>, <<"StoreLocal", 1>>, <<"LoadLit", 0>>, <<"JumpF", 0>>,
                  <<"LoadLit", 0>>, <<"JumpT", 1>>, <<"Nop">>, <<"LoadLocal", 1>>,
                  <<"Dup">>, <<"Pop">>, <<"Return">> >>)

\* the objects whose digests are read from a text; the 64 hexadecimal
\* digits of a digest are one character of the model: hex:k for the k-th of
\* these, and for any other digest a character that no text to parse has
\* outside a comment
Digests == <<sub2, RoundG>>
HexDigits(h) ==
    IF \E k \in DOMAIN Digests : hash(Digests[k]) = h
    THEN "hex:" \o ToString(CHOOSE k \in DOMAIN Digests : hash(Digests[k]) = h)
    ELSE "hex:" \o ToString(h)

\* hash_from_str: Some(hash) for 0x and the digits of a digest, or None
hash_from_str(w) ==
    IF Len(w) = 3 /\ SubSeq(w, 1, 2) = Chars["0x"]
       /\ \E k \in DOMAIN Digests : w[3] = HexDigits(hash(Digests[k]))
    THEN Some(hash(Digests[CHOOSE k \in DOMAIN Digests : w[3] = HexDigits(hash(Digests[k]))]))
    ELSE None

\* Parser::get_jump_instr: Ok(instr), or Err of an unknown label or
\* instruction; label_names maps the names of the labels to their ids
get_jump_instr(op, label_names, arg) ==
    IF arg \notin DOMAIN label_names THEN <<"Err", "UnknownLabel">>
    ELSE LET label_idx == label_names[arg] IN
         CASE op = Chars["jmp"] -> <<"Ok", <<"Jump", label_idx>>>>
           [] op = Chars["jmp_t"] -> <<"Ok", <<"JumpT", label_idx>>>>
           [] op = Chars["jmp_f"] -> <<"Ok", <<"JumpF", label_idx>>>>
           [] op = Chars["jmp_eq"] -> <<"Ok", <<"JumpEq", label_idx>>>>
           [] op = Chars["jmp_gt"] -> <<"Ok", <<"JumpGt", label_idx>>>>
           [] op = Chars["jmp_ge"] -> <<"Ok", <<"JumpGe", label_idx>>>>
           [] op = Chars["jmp_lt"] -> <<"Ok", <<"JumpLt", label_idx>>>>
           [] op = Chars["jmp_le"] -> <<"Ok", <<"JumpLe", label_idx>>>>
           [] OTHER -> <<"Err", "UnknownInstr">>

\* the string with these characters
RECURSIVE NameOf(_)
NameOf(cs) == IF cs = <<>> THEN "" ELSE cs[1] \o NameOf(Tail(cs))

\* the instructions without an argument, by mnemonic; ret_val is Return
NoArgInstrs ==
    ("pop" :> <<"Pop">>) @@ ("dup" :> <<"Dup">>) @@
    ("call" :> <<"Call">>) @@ ("call_self" :> <<"CallSelf">>) @@
    ("ret" :> <<"Return">>) @@ ("ret_val" :> <<"Return">>) @@
    ("add" :> <<"BinOp", "Add">>) @@ ("mul" :> <<"BinOp", "Mul">>) @@
    ("div" :> <<"BinOp", "Div">>) @@ ("sub" :> <<"BinOp", "Sub">>) @@
    ("mod" :> <<"BinOp", "Mod">>) @@ ("shl" :> <<"BinOp", "Shl">>) @@
    ("shr" :> <<"BinOp", "Shr">>) @@ ("and" :> <<"BinOp", "And">>) @@
    ("or" :> <<"BinOp", "Or">>) @@ ("eq" :> <<"BinOp", "Eq">>) @@
    ("not" :> <<"UnaryOp", "Not">>) @@ ("neg" :> <<"UnaryOp", "Neg">>) @@
    ("nop" :> <<"Nop">>) @@ ("dbg" :> <<"Dbg">>)

\* the instructions with an index, by mnemonic
IntArgInstrs ==
    ("load_arg" :> "LoadArg") @@ ("load_loc" :> "LoadLocal") @@
    ("load_lit" :> "LoadLit") @@ ("store_loc" :> "StoreLocal")

\* Parser::parse_function, "Decode instruction": the match on the word
\* base, the argument as an integer and the argument as a string of a line
\* that is an instruction: Ok(instr) or Err
decode(base, argument, label_names) ==
    LET int_argument == IF argument = None THEN None ELSE ParseUsize(argument[1])
        str_argument == IF int_argument # None THEN None ELSE argument
        Is(m) == base = Chars[m]
    IN IF int_argument # None
       THEN (IF \E m \in DOMAIN IntArgInstrs : Is(m)
             THEN <<"Ok", <<IntArgInstrs[CHOOSE m \in DOMAIN IntArgInstrs : Is(m)],
                            int_argument[1]>>>>
             ELSE <<"Err", "UnknownInstr">>)
       ELSE IF str_argument # None
       THEN (IF Is("load_func")
             THEN (IF hash_from_str(str_argument[1]) = None THEN <<"Err", "Error">>
                   ELSE <<"Ok", <<"LoadFunc", hash_from_str(str_argument[1])[1]>>>>)
             ELSE IF Is("load_dyn")
             THEN <<"Ok", <<"LoadDyn", NameOf(Tail(str_argument[1]))>>>>
             ELSE IF Len(base) >= 3 /\ SubSeq(base, 1, 3) = Chars["jmp"]
             THEN get_jump_instr(base, label_names, str_argument[1])
             ELSE <<"Err", "UnknownInstr">>)
       ELSE IF Is("load_func") THEN <<"Err", "ExpectedArgument">>
       ELSE IF \E m \in DOMAIN NoArgInstrs : Is(m)
       THEN <<"Ok", NoArgInstrs[CHOOSE m \in DOMAIN NoArgInstrs : Is(m)]>>
       ELSE <<"Err", "UnknownInstr">>

\* str::parse::<i32>: an optional sign, then digits only
ParseI32(w) ==
    IF w # <<>> /\ w[1] = "-"
    THEN (IF ParseUsize(Tail(w)) = None \/ Tail(w)[1] = "+" THEN None
          ELSE Some(-ParseUsize(Tail(w))[1]))
    ELSE ParseUsize(w)

\* Parser::is_func_def: None, or Some of Ok((name, arity)) or of Err
is_func_def(line) ==
    IF Len(line) # 2 THEN None
    ELSE LET name == line[1]
             arg == line[2]
         IN IF name[1] = "$" /\ Last(arg) = ":"
            THEN LET parsed == ParseUsize(ButLast(arg)) IN
                 IF is_valid_name(NameOf(Tail(name))) /\ parsed # None
                 THEN Some(<<"Ok", NameOf(Tail(name)), parsed[1]>>)
                 ELSE Some(<<"Err", "InvalidFuncDef">>)
            ELSE None

\* Parser::split_functions: a function starts at the first line and at each
\* definition line, and runs up to the next start
split_functions(lines) ==
    LET starts == SelectSeq([i \in 1..Len(lines) |-> i],
                            LAMBDA i : i = 1 \/ is_func_def(lines[i]) # None)
    IN [k \in 1..Len(starts) |->
           SubSeq(lines, starts[k],
                  IF k = Len(starts) THEN Len(lines) ELSE starts[k + 1] - 1)]

\* F(v) for the value v, which is computed once
With(v, F(_)) == CHOOSE r \in {F(x) : x \in {v}} : TRUE

\* collect::<Result<Vec<_>, _>>: the values, or the first error
Collect(results) ==
    With(results, LAMBDA rs :
        LET IsErr(r) == r[1] = "Err"
            errs == SelectSeq(rs, IsErr)
        IN IF errs # <<>> THEN errs[1] ELSE <<"Ok", [k \in 1..Len(rs) |-> rs[k][2]]>>)

\* the characters of a string: the lower case letters by their code
Alphabet ==
    <<"a", "b", "c", "d", "e", "f", "g", "h", "i", "j", "k", "l", "m",
      "n", "o", "p", "q", "r", "s", "t", "u", "v", "w", "x", "y", "z">>
CharOf(code) == Alphabet[code - 96]
CodeOf(c) == 96 + CHOOSE k \in DOMAIN Alphabet : Alphabet[k] = c

\* Parser::get_str_lit for a string without white space, the word arg: what
\* is between the opening quote and the next one, or Err when there is none
get_str_lit(arg) ==
    LET closing == {k \in 2..Len(arg) : arg[k] = "\""} IN
    IF closing = {} THEN <<"Err", "InvalidStrLit">>
    ELSE LET k == CHOOSE x \in closing : \A y \in closing : x <= y
         IN <<"Ok", Str([i \in 1..(k - 2) |-> CodeOf(arg[i + 1])])>>

\* the closure of get_literals on a line that starts with a dot: Some of
\* Ok(value) or of Err, or None for a word that is no literal of a known
\* form, which is left out without an error
LitValue(line) ==
    IF Len(line) < 2 THEN Some(<<"Err", "ExpectedArgument">>)
    ELSE LET arg == line[2] IN
         IF Tail(line[1]) # Chars["lit"] THEN Some(<<"Err", "InvalidLiteral">>)
         ELSE IF arg = Chars["true"] THEN Some(<<"Ok", Bool(TRUE)>>)
         ELSE IF arg = Chars["false"] THEN Some(<<"Ok", Bool(FALSE)>>)
         ELSE IF arg[1] = "\"" THEN Some(get_str_lit(arg))
         ELSE IF Len(arg) >= 2 /\ SubSeq(arg, 1, 2) = Chars["0x"]
         THEN (IF hash_from_str(arg) = None THEN Some(<<"Err", "Error">>)
               ELSE Some(<<"Ok", HashV(hash_from_str(arg)[1])>>))
         ELSE IF ParseI32(arg) # None THEN Some(<<"Ok", I32(ParseI32(arg)[1])>>)
         ELSE None

\* Parser::get_literals: the values of the lines that start with a dot
get_literals(function) ==
    LET IsLit(line) == line[1][1] = "."
        Kept(r) == r # None
    IN With(SelectSeq(function, IsLit), LAMBDA lits :
          With(SelectSeq([k \in 1..Len(lits) |-> LitValue(lits[k])], Kept), LAMBDA kept :
             Collect([k \in 1..Len(kept) |-> kept[k][1]])))

\* the lines of a function without those that contain a dot
CodeLines(function) ==
    LET NoDot(line) == \A w \in 1..Len(line) : \A c \in 1..Len(line[w]) : line[w][c] # "."
    IN SelectSeq(function, NoDot)

\* a line of one word that ends in a colon
IsLabelLine(line) == Len(line) = 1 /\ Last(line[1]) = ":"

\* get_labels that takes off the header only: the labels before a label
\* count as instructions
get_labels_counting_labels(code) ==
    With(SelectSeq([i \in 1..Len(code) |-> i], LAMBDA i : IsLabelLine(code[i])), LAMBDA at :
       LET name(k) == ButLast(code[at[k]][1])
       IN IF \E k \in 1..Len(at) : ~is_valid_name(NameOf(name(k)))
          THEN <<"Err", "InvalidLabelName">>
          ELSE <<"Ok",
                 [n \in {name(k) : k \in 1..Len(at)} |->
                     (CHOOSE k \in 1..Len(at) :
                         name(k) = n /\ \A k2 \in 1..Len(at) : name(k2) = n => k2 <= k) - 1],
                 [k \in 1..Len(at) |-> at[k] - 2]>>)

\* Parser::get_labels: Ok((label_names, label_offsets)) or Err; the offset
\* of a label is the index of its line less the labels up to it
get_labels(code) ==
    With(SelectSeq([i \in 1..Len(code) |-> i], LAMBDA i : IsLabelLine(code[i])), LAMBDA at :
       LET name(k) == ButLast(code[at[k]][1])
       IN IF \E k \in 1..Len(at) : ~is_valid_name(NameOf(name(k)))
          THEN <<"Err", "InvalidLabelName">>
          ELSE <<"Ok",
                 [n \in {name(k) : k \in 1..Len(at)} |->
                     (CHOOSE k \in 1..Len(at) :
                         name(k) = n /\ \A k2 \in 1..Len(at) : name(k2) = n => k2 <= k) - 1],
                 [k \in 1..Len(at) |-> (at[k] - 1) - k]>>)

\* the closure of parse_function on one line of the code: a token or Err
Token(line, label_names) ==
    IF Len(line) > 2 THEN <<"Err", "UnexpectedArgument">>
    ELSE With(is_func_def(line), LAMBDA def :
            IF def # None
            THEN (IF def[1][1] = "Ok" THEN <<"Ok", <<"FuncDef", def[1][2], def[1][3]>>>>
                  ELSE def[1])
            ELSE IF IsLabelLine(line) THEN <<"Ok", <<"Label", ButLast(line[1])>>>>
            ELSE With(decode(line[1], IF Len(line) = 2 THEN Some(line[2]) ELSE None,
                             label_names), LAMBDA r :
                    IF r[1] = "Ok" THEN <<"Ok", <<"Instr", r[2]>>>> ELSE r))

\* the maximum of a set of naturals, 0 for the empty set
Max(S) == IF S = {} THEN 0 ELSE CHOOSE x \in S : \A y \in S : y <= x

\* get_num_locals that returns the largest index itself
get_num_locals_max_index(tokens) ==
    Max({tokens[k][2][2] :
            k \in {j \in 1..Len(tokens) :
                      tokens[j][1] = "Instr" /\ tokens[j][2][1] \in {"LoadLocal", "StoreLocal"}}})

\* Parser::get_num_locals: the largest index of LoadLocal/StoreLocal plus one
get_num_locals(tokens) ==
    Max({tokens[k][2][2] + 1 :
            k \in {j \in 1..Len(tokens) :
                      tokens[j][1] = "Instr" /\ tokens[j][2][1] \in {"LoadLocal", "StoreLocal"}}})

\* Parser::parse_function: Ok(PartialParse) or Err
parse_function(function) ==
    With(get_literals(function), LAMBDA literals :
       IF literals[1] = "Err" THEN literals
       ELSE With(CodeLines(function), LAMBDA code :
               With(get_labels(code), LAMBDA labels :
                  IF labels[1] = "Err" THEN labels
                  ELSE With(Collect([k \in 1..Len(code) |-> Token(code[k], labels[2])]),
                            LAMBDA tokens :
                               IF tokens[1] = "Err" THEN tokens
                               ELSE <<"Ok", [tokens |-> tokens[2], labels |-> labels[3],
                                             num_locals |-> get_num_locals(tokens[2]),
                                             literals |-> literals[2]]>>))))

\* Parser::finalize_parse: Ok(Parse) or Err
finalize_parse(partial) ==
    LET IsDef(t) == t[1] = "FuncDef"
        IsInstr(t) == t[1] = "Instr"
    IN With(SelectSeq(partial.tokens, IsDef), LAMBDA defs :
          With(SelectSeq(partial.tokens, IsInstr), LAMBDA instrs :
             IF defs = <<>> THEN <<"Err", "NoFunctionDef">>
             ELSE <<"Ok",
                    [func_name |-> defs[1][2],
                     code_obj |->
                        CodeObject(partial.literals, defs[1][3],
                                   [t \in 1..(defs[1][3] + partial.num_locals) |->
                                       "x" \o ToString(t - 1)],
                                   partial.labels,
                                   [k \in 1..Len(instrs) |-> instrs[k][2]])]>>))

\* the characters of a line before the first # that is not inside quotes
RECURSIVE StripComment(_, _)
StripComment(line, inside_string) ==
    IF line = <<>> THEN <<>>
    ELSE LET w == Head(line)
             Quotes(n) == Cardinality({i \in 1..n : w[i] \in {"\"", "'"}})
             Inside(n) == inside_string # (Quotes(n) % 2 = 1)
             cuts == {i \in 1..Len(w) : w[i] = "#" /\ ~Inside(i - 1)}
         IN IF cuts = {} THEN <<w>> \o StripComment(Tail(line), Inside(Len(w)))
            ELSE LET c == CHOOSE x \in cuts : \A y \in cuts : x <= y
                 IN IF c = 1 THEN <<>> ELSE <<SubSeq(w, 1, c - 1)>>

\* Parser::preprocess: comments are cut off, lines left empty are dropped
preprocess(contents) ==
    LET NonEmpty(line) == line # <<>>
    IN SelectSeq([k \in 1..Len(contents) |-> StripComment(contents[k], FALSE)], NonEmpty)

\* Parser::parse_file on the lines of a file: Ok(Vec<Parse>) or Err
parse_file(lines) ==
    LET Parsed(func) ==
            With(parse_function(func), LAMBDA partial :
               IF partial[1] = "Err" THEN partial ELSE finalize_parse(partial[2]))
    IN With(split_functions(preprocess(lines)), LAMBDA functions :
          Collect([k \in 1..Len(functions) |-> Parsed(functions[k])]))

\* the inserts of run_scratch_file in the order given, up to the first that
\* fails
RECURSIVE InsertEach(_, _)
InsertEach(d, entries) ==
    IF entries = <<>> THEN [ok |-> TRUE, db |-> d]
    ELSE With(insert_code_object_with_name(d, Head(entries)[2], Head(entries)[1]), LAMBDA r :
            IF r.ok THEN InsertEach(r.db, Tail(entries)) ELSE [ok |-> FALSE, db |-> r.db])

\* HashMap<String, CodeObject> of a Vec<Parse>: the last of a name stays
NodesOf(objs) ==
    [n \in {objs[k].func_name : k \in 1..Len(objs)} |->
        objs[CHOOSE k \in 1..Len(objs) :
                /\ objs[k].func_name = n
                /\ \A k2 \in 1..Len(objs) : objs[k2].func_name = n => k2 <= k].code_obj]

\* the rest of run_scratch_file after DynCallResolver::new: resolve_dyn_calls,
\* a Vm on an empty store and the inserts, in any order of the HashMap
Link(self) ==
    UNION {IF ~resolved.ok
           THEN {[ok |-> FALSE, db |-> EmptyDb, msg |-> "resolve_dyn_calls"]}
           ELSE {With(InsertEach(EmptyDb, [k \in 1..Len(o) |-> <<o[k], resolved.objs[o[k]]>>]),
                      LAMBDA ins :
                         [ok |-> ins.ok, db |-> ins.db,
                          msg |-> IF ins.ok THEN "" ELSE "insert_code_object_with_name"]) :
                 o \in Orders(DOMAIN resolved.objs)} :
           resolved \in {resolve_dyn_calls(self)}}

\* run_scratch_file up to run_main_function: the stores it can leave, with
\* ok or the step that failed
Assemble(lines) ==
    UNION {IF objs[1] = "Err" THEN {[ok |-> FALSE, db |-> EmptyDb, msg |-> "parse_file"]}
           ELSE UNION {IF resolvers = {}
                       THEN {[ok |-> FALSE, db |-> EmptyDb, msg |-> "DynCallResolver::new"]}
                       ELSE UNION {Link(self) : self \in resolvers} :
                       resolvers \in {DynCallResolver_new(NodesOf(objs[2]))}} :
           objs \in {parse_file(lines)}}

\* run_scratch_file on a text, up to the call of exec, on a Vm of its own
\* (the call stack is empty): an error of the steps before, or main is pushed
StartVm(lines) ==
    /\ \E a \in Assemble(lines) :
          /\ db' = a.db
          /\ LET found == get_main_object(a.db) IN
             IF ~a.ok \/ found = None
             THEN /\ result' = Err(IF a.ok THEN "query failed: no main object found"
                                   ELSE a.msg)
                  /\ call_stack' = <<>>
                  /\ call_log' = <<>>
                  /\ executed' = None
             ELSE /\ call_stack' = <<StackFrame(found[2], <<>>, NoLocals, 0)>>
                  /\ call_log' = <<[site |-> -1, stack |-> <<>>, locals |-> NoLocals]>>
                  /\ result' = Running
                  /\ executed' = None
    /\ runs' = RunsAfter

\* run_scratch_file(file, Some(db_file)) of a text
RunScratchFile(texts) ==
    /\ result.kind = "new"
    /\ executed = None
    /\ \E lines \in texts : StartVm(lines)

\* the decimal digits of an integer, as Display writes it
RECURSIVE Numeral(_)
Numeral(n) ==
    IF n < 0 THEN <<"-">> \o Numeral(-n)
    ELSE IF n < 10 THEN <<ToString(n)>>
    ELSE Numeral(n \div 10) \o <<ToString(n % 10)>>

----------------------------------------------------------------------------
(* The disassembler (asm/dis.rs, Display in bytecode.rs) and the round trip *)
(* of cli/commands.rs.  A text is the sequence of its lines.                *)

\* impl Display for BinOp and UnaryOp
OpText ==
    ("Add" :> "add") @@ ("Mul" :> "mul") @@ ("Div" :> "div") @@ ("Sub" :> "sub") @@
    ("Mod" :> "mod") @@ ("Shl" :> "shl") @@ ("Shr" :> "shr") @@ ("And" :> "and") @@
    ("Or" :> "or") @@ ("Eq" :> "eq") @@ ("Not" :> "not") @@ ("Neg" :> "neg")

\* the mnemonic Display and format_with_labelnames write for an instruction
MnemonicOf ==
    ("LoadArg" :> "load_arg") @@ ("LoadLocal" :> "load_loc") @@ ("LoadLit" :> "load_lit") @@
    ("StoreLocal" :> "store_loc") @@ ("Pop" :> "pop") @@ ("Dup" :> "dup") @@
    ("LoadFunc" :> "load_func") @@ ("LoadDyn" :> "load_dyn") @@ ("Call" :> "call") @@
    ("CallSelf" :> "call_self") @@ ("Return" :> "ret") @@ ("ReturnVal" :> "ret_val") @@
    ("Jump" :> "jmp") @@ ("JumpT" :> "jmp_t") @@ ("JumpF" :> "jmp_f") @@
    ("JumpEq" :> "jmp_eq") @@ ("JumpNe" :> "jmp_ne") @@ ("JumpGt" :> "jmp_gt") @@
    ("JumpGe" :> "jmp_ge") @@ ("JumpLt" :> "jmp_lt") @@ ("JumpLe" :> "jmp_le") @@
    ("Dbg" :> "dbg") @@ ("Nop" :> "nop")

\* load_func that writes the digits of the digest without 0x before them
FormatLoadFuncBare(h) == <<Chars["load_func"], <<HexDigits(h)>>>>

\* impl Display for Instr, Instr::LoadFunc(h): load_func 0x{hex}
FormatLoadFunc(h) == <<Chars["load_func"], Chars["0x"] \o <<HexDigits(h)>>>>

\* Bytecode::format_with_labelnames on one instruction: the words of its
\* line; a jump names its label L{i}, the others are written by Display
FormatInstr(instr) ==
    CASE instr[1] \in {"Jump", "JumpT", "JumpF"} \cup CompareJumps ->
            <<Chars[MnemonicOf[instr[1]]], <<"L">> \o Numeral(instr[2])>>
      [] instr[1] \in {"LoadArg", "LoadLocal", "LoadLit", "StoreLocal"} ->
            <<Chars[MnemonicOf[instr[1]]], Numeral(instr[2])>>
      [] instr[1] = "LoadFunc" -> FormatLoadFunc(instr[2])
      [] instr[1] = "LoadDyn" -> <<Chars["load_dyn"], Spelling[instr[2]]>>
      [] instr[1] \in {"BinOp", "UnaryOp"} -> <<Chars[OpText[instr[2]]]>>
      [] OTHER -> <<Chars[MnemonicOf[instr[1]]]>>

\* disassemble_function, the text of a literal
LitText(lit) ==
    CASE lit[1] = "String" -> <<"\"">> \o [k \in 1..Len(lit[2]) |-> CharOf(lit[2][k])] \o <<"\"">>
      [] lit[1] = "Hash" -> Chars["0x"] \o <<HexDigits(lit[2])>>
      [] lit[1] = "Bool" -> IF lit[2] THEN Chars["true"] ELSE Chars["false"]
      [] lit[1] = "Char" -> <<CharOf(lit[2])>>
      [] lit[1] = "Container" -> <<"<", "c", "o", "n", "t", "_", "o", "b", "j", ">">>
      [] OTHER -> Numeral(lit[2])

\* Vec::insert(index, element)
InsertAt(v, index, x) == SubSeq(v, 1, index) \o <<x>> \o SubSeq(v, index + 1, Len(v))

\* the fold of disassemble_function: L{i}: goes in at label + k, k the
\* labels put in before it
RECURSIVE InsertLabels(_, _, _)
InsertLabels(code, labels, k) ==
    IF k = Len(labels) THEN code
    ELSE InsertLabels(InsertAt(code, labels[k + 1] + k, <<<<"L">> \o Numeral(k) \o <<":">>>>),
                      labels, k + 1)

\* disassemble_function: the lines of a function, the comment with its
\* digest first
disassemble_function(name, h, obj) ==
    << <<<<"#">>, Chars["0x"] \o <<HexDigits(h)>>>>,
       <<(<<"$">> \o Spelling[name]), Numeral(obj.argcount) \o <<":">>>> >>
    \o [k \in 1..Len(obj.litpool) |-> <<(<<".">> \o Chars["lit"]), LitText(obj.litpool[k])>>]
    \o InsertLabels([k \in 1..Len(obj.code) |-> FormatInstr(obj.code[k])], obj.labels, 0)

\* Database::disassemble: the functions of the names table, in its order
RECURSIVE disassemble(_, _)
disassemble(d, k) ==
    IF k > Len(d.names) THEN <<>>
    ELSE disassemble_function(d.names[k].name, d.names[k].hash,
                              get_code_object(d, d.names[k].hash)[1])
         \o disassemble(d, k + 1)

\* roundtrip_file after its first run_scratch_file has returned Ok: the store
\* is disassembled and the text run by run_scratch_file(dis_file, None)
RunDisassembled ==
    /\ Len(runs) = 1
    /\ result.kind = "Ok"
    /\ StartVm(disassemble(db, 1))

\* the mnemonics, and a word that is none
Mnemonics == DOMAIN Chars \ {"0x", "lit", "true", "false"}
AsmBases == {Chars[m] : m \in Mnemonics} \cup {Spelling["nope"]}

\* the labels of the function a line is in: g is label 0, fib label 1
AsmLabels == (Spelling["g"] :> 0) @@ (Spelling["fib"] :> 1)

\* the arguments of a line: none, an index, a label, a label that is not
\* defined, the name of a function, a digest
AsmArguments ==
    {None, Some(<<"0">>), Some(<<"1", "2">>), Some(Spelling["g"]), Some(Spelling["fib"]),
     Some(Spelling["nope"]), Some(<<"$">> \o Spelling["g"]),
     Some(Chars["0x"] \o <<HexDigits(hash(sub2))>>)}

\* the parser decodes one line of a function that has the labels AsmLabels
Decode ==
    /\ result.kind = "new"
    /\ executed = None
    /\ \E base \in AsmBases, argument \in AsmArguments :
          executed' = Called(<<"decode", base, argument>>,
                             decode(base, argument, AsmLabels))
    /\ UNCHANGED <<db, call_stack, result, call_log, runs>>

\* code objects to disassemble: three instructions and up to two labels,
\* each an offset of the code or its end, in any order
DisLabels == SeqsUpTo(0..3, 2)
DisObject(labels) ==
    CodeObject(<<I32(3)>>, 0, <<>>, labels, << <<"Nop">>, <<"Jump", 0>>, <<"Dup">> >>)

\* disassemble_function on a code object under the name g
Disassemble ==
    /\ result.kind = "new"
    /\ executed = None
    /\ \E labels \in DisLabels :
          executed' = Called(<<"disassemble_function", DisObject(labels)>>,
                             disassemble_function("g", hash(DisObject(labels)),
                                                  DisObject(labels)))
    /\ UNCHANGED <<db, call_stack, result, call_log, runs>>

\* instructions of every kind, with the indexes and label ids 0 and 1, the
\* digest of sub2 and the name g
TextInstrs ==
    {<<m, i>> : m \in {"LoadArg", "LoadLocal", "LoadLit", "StoreLocal"}, i \in 0..1}
    \cup {<<j, k>> : j \in CompareJumps \cup {"Jump", "JumpT", "JumpF"}, k \in 0..1}
    \cup {<<"BinOp", op>> : op \in BinOps} \cup {<<"UnaryOp", op>> : op \in UnaryOps}
    \cup {<<"LoadFunc", hash(sub2)>>, <<"LoadDyn", "g">>}
    \cup {<<"Pop">>, <<"Dup">>, <<"Call">>, <<"CallSelf">>, <<"Return">>, <<"ReturnVal">>,
          <<"Dbg">>, <<"Nop">>}

\* the labels of a function in which L0: and L1: are written, in this order
MarkerLabels == (Spelling["L0"] :> 0) @@ (Spelling["L1"] :> 1)

\* the line format_with_labelnames writes for an instruction is parsed as a
\* line of a function with the labels L0 and L1
Reassemble ==
    /\ result.kind = "new"
    /\ executed = None
    /\ \E instr \in TextInstrs :
          executed' = Called(<<"reassemble", instr>>, Token(FormatInstr(instr), MarkerLabels))
    /\ UNCHANGED <<db, call_stack, result, call_log, runs>>

\* the file of a program of one function: main with the literals a and b,
\* load_lit 0, load_lit 1, the operation op and ret_val
Scenario(a, b, op) ==
    << <<(<<"$">> \o Spelling["main"]), <<"0", ":">>>>,
       <<(<<".">> \o Chars["lit"]), Numeral(a)>>,
       <<(<<".">> \o Chars["lit"]), Numeral(b)>>,
       <<Chars["load_lit"], <<"0">>>>,
       <<Chars["load_lit"], <<"1">>>>,
       <<Chars[op]>>,
       <<Chars["ret_val"]>> >>

ScenarioLits == {0, 3, 6, 7, 10}

\* a file of two functions: main, with a comment, literals of each kind, a
\* call by name and a digest, and g, with an argument, a local and labels
RoundMainText ==
    << <<(<<"$">> \o Spelling["main"]), <<"0", ":">>>>,
       <<<<"#">>, Spelling["nope"]>>,
       <<(<<".">> \o Chars["lit"]), <<"-", "3">>>>,
       <<(<<".">> \o Chars["lit"]), Chars["0x"] \o <<HexDigits(hash(sub2))>>>>,
       <<(<<".">> \o Chars["lit"]), <<"\"", "a", "b", "\"">>>>,
       <<Chars["load_lit"], <<"0">>>>,
       <<Chars["load_dyn"], <<"$">> \o Spelling["g"], <<"#", "g">>>>,
       <<Chars["call"]>>,
       <<Chars["load_func"], Chars["0x"] \o <<HexDigits(hash(sub2))>>>>,
       <<Chars["pop"]>>,
       <<Chars["nop"]>>,
       <<Chars["ret"]>> >>
RoundGText ==
    << <<(<<"$">> \o Spelling["g"]), <<"1", ":">>>>,
       <<(<<".">> \o Chars["lit"]), Chars["true"]>>,
       <<Chars["load_arg"], <<"0">>>>,
       <<Chars["store_loc"], <<"1">>>>,
       <<Chars["load_lit"], <<"0">>>>,
       <<Chars["jmp_f"], Spelling["fib"]>>,
       <<Chars["load_lit"], <<"0">>>>,
       <<Chars["jmp_t"], Spelling["rec2"]>>,
       <<Spelling["fib"] \o <<":">>>>,
       <<Chars["nop"]>>,
       <<Spelling["rec2"] \o <<":">>>>,
       <<Chars["load_loc"], <<"1">>>>,
       <<Chars["dup"]>>,
       <<Chars["pop"]>>,
       <<Chars["ret_val"]>> >>

\* a file that defines main twice
TwiceMainText ==
    << <<(<<"$">> \o Spelling["main"]), <<"0", ":">>>>,
       <<(<<".">> \o Chars["lit"]), <<"3">>>>,
       <<Chars["load_lit"], <<"0">>>>,
       <<Chars["pop"]>>,
       <<Chars["ret"]>>,
       <<(<<"$">> \o Spelling["main"]), <<"0", ":">>>>,
       <<Chars["nop"]>>,
       <<Chars["ret"]>> >>

AsmTexts ==
    {Scenario(a, b, op) : a \in ScenarioLits, b \in ScenarioLits, op \in {"add", "sub"}}
    \cup {RoundMainText \o RoundGText, RoundGText \o RoundMainText, TwiceMainText}

\* A new Vm; a line is decoded, or a file is run
InitAsm == InitStore
NextAsm ==
    \/ Decode
    \/ Disassemble
    \/ Reassemble
    \/ RunScratchFile(AsmTexts)
    \/ RunDisassembled
    \/ LoadArg(Bounds)
    \/ LoadLocal(Bounds)
    \/ LoadLit(Bounds)
    \/ StoreLocal(Bounds)
    \/ Pop(Bounds)
    \/ Dup(Bounds)
    \/ LoadFunc(Bounds)
    \/ Call(Bounds)
    \/ Return(Bounds)
    \/ JumpT(Bounds)
    \/ JumpF(Bounds)
    \/ BinOp(Bounds)
    \/ Nop(Bounds)
SpecAsm == InitAsm /\ [][NextAsm]_vars

----------------------------------------------------------------------------
(* A Vm on which run_main_function is called again after it has returned:  *)
(* the Vm keeps its call stack from one call to the next.                   *)

\* the calls of run_main_function on one Vm
MaxRuns == 2

\* Vm::run_main_function on a Vm whose last call has returned Ok or Err: the
\* main frame is pushed onto the call stack as the last call left it
RunMainAgain ==
    /\ result.kind \in {"Ok", "Err"}
    /\ Len(runs) < MaxRuns
    /\ LET found == get_main_object(db) IN
       IF found = None
       THEN /\ result' = Err("query failed: no main object found")
            /\ UNCHANGED <<call_stack, call_log, executed>>
       ELSE /\ call_stack' = Append(call_stack, StackFrame(found[2], <<>>, NoLocals, 0))
            /\ Within(Bounds, call_stack')
            /\ call_log' = Append(SubSeq(call_log, 1, Len(call_stack)),
                                  [site |-> -1, stack |-> <<>>, locals |-> NoLocals])
            /\ result' = Running
            /\ executed' = None
    /\ UNCHANGED db
    /\ runs' = RunsAfter

InitRerun == InitWith(TestPrograms)
NextRerun == Run(Bounds) \/ RunMainAgain
SpecRerun == InitRerun /\ [][NextRerun]_vars

\* no object of the store has a Dbg instruction
NoDbg ==
    \A k \in 1..Len(db.code_objs) :
        \A i \in 1..Len(db.code_objs[k].code_obj.code) :
            db.code_objs[k].code_obj.code[i][1] # "Dbg"

\* C23: determinism: with no Dbg instructions, two consecutive executions of
\* run_main_function on the same Vm, program and store contents end with
\* identical results (the same exit code or the same error) and identical
\* final call stacks.
C23_RunsAreDeterministic ==
    (NoDbg /\ Len(runs) >= 2) => runs[2] = runs[1]

\* the instruction of the same name as each mnemonic without an argument
SameName ==
    ("pop" :> <<"Pop">>) @@ ("dup" :> <<"Dup">>) @@
    ("call" :> <<"Call">>) @@ ("call_self" :> <<"CallSelf">>) @@
    ("ret" :> <<"Return">>) @@ ("ret_val" :> <<"ReturnVal">>) @@
    ("add" :> <<"BinOp", "Add">>) @@ ("mul" :> <<"BinOp", "Mul">>) @@
    ("div" :> <<"BinOp", "Div">>) @@ ("sub" :> <<"BinOp", "Sub">>) @@
    ("mod" :> <<"BinOp", "Mod">>) @@ ("shl" :> <<"BinOp", "Shl">>) @@
    ("shr" :> <<"BinOp", "Shr">>) @@ ("and" :> <<"BinOp", "And">>) @@
    ("or" :> <<"BinOp", "Or">>) @@ ("eq" :> <<"BinOp", "Eq">>) @@
    ("not" :> <<"UnaryOp", "Not">>) @@ ("neg" :> <<"UnaryOp", "Neg">>) @@
    ("nop" :> <<"Nop">>) @@ ("dbg" :> <<"Dbg">>)

\* the jump of the same name as each jump mnemonic
SameNameJump ==
    ("jmp" :> "Jump") @@ ("jmp_t" :> "JumpT") @@ ("jmp_f" :> "JumpF") @@
    ("jmp_eq" :> "JumpEq") @@ ("jmp_ne" :> "JumpNe") @@ ("jmp_gt" :> "JumpGt") @@
    ("jmp_ge" :> "JumpGe") @@ ("jmp_lt" :> "JumpLt") @@ ("jmp_le" :> "JumpLe")

\* C25: the assembler maps every listed mnemonic to the instruction of the
\* same name: ret assembles to Return and ret_val to ReturnVal, and each of
\* jmp, jmp_t, jmp_f, jmp_eq, jmp_ne, jmp_gt, jmp_ge, jmp_lt, jmp_le with a
\* defined label to the corresponding jump carrying the id of that label.
C25_MnemonicsAssemble ==
    (result.kind = "new" /\ LastCall("decode")) =>
       LET base == executed[1].call[2]
           argument == executed[1].call[3]
       IN /\ \A m \in DOMAIN SameName :
                (base = Chars[m] /\ argument = None)
                => executed[1].returned = <<"Ok", SameName[m]>>
          /\ \A m \in DOMAIN SameNameJump :
                (base = Chars[m] /\ argument # None /\ argument[1] \in DOMAIN AsmLabels)
                => executed[1].returned = <<"Ok", <<SameNameJump[m], AsmLabels[argument[1]]>>>>

\* the two stores hold the same objects and the same names
SameStore(d1, d2) ==
    /\ {d1.code_objs[k] : k \in 1..Len(d1.code_objs)} = {d2.code_objs[k] : k \in 1..Len(d2.code_objs)}
    /\ {d1.names[k] : k \in 1..Len(d1.names)} = {d2.names[k] : k \in 1..Len(d2.names)}

LocalIndexes(obj) ==
    {obj.code[k][2] : k \in {j \in 1..Len(obj.code) : obj.code[j][1] \in {"LoadLocal", "StoreLocal"}}}

\* C33: every assembled function (here: every object run_scratch_file has
\* stored) has max(i) + 1 locals over its LoadLocal i / StoreLocal i, 0 if
\* it has none, and the local names x0 .. x(argcount + num_locals - 1); so
\* argcount + i < len(localnames) for each of these instructions.
C33_LocalsAreInferred ==
    \A k \in 1..Len(db.code_objs) :
        LET obj == db.code_objs[k].code_obj
            num_locals == IF LocalIndexes(obj) = {} THEN 0
                          ELSE 1 + CHOOSE i \in LocalIndexes(obj) : \A j \in LocalIndexes(obj) : j <= i
        IN /\ Len(obj.localnames) = obj.argcount + num_locals
           /\ \A t \in 1..Len(obj.localnames) : obj.localnames[t] = "x" \o ToString(t - 1)
           /\ \A i \in LocalIndexes(obj) : obj.argcount + i < Len(obj.localnames)

\* the file with g is assembled: g, of one argument, stores to local 1 and
\* has the names x0, x1, x2; main has no local and no name
C33_Witness ==
    /\ runs = <<>>
    /\ result.kind = "running"
    /\ get_code_object_by_name(db, "g") # None
    /\ get_code_object_by_name(db, "g")[2].localnames = <<"x0", "x1", "x2">>
    /\ LocalIndexes(get_code_object_by_name(db, "g")[2]) = {1}
    /\ get_main_object(db)[2].localnames = <<>>

\* run_scratch_file has assembled this file and its run is under way
RunningFile(lines) ==
    /\ runs = <<>>
    /\ result.kind = "running"
    /\ \E a \in Assemble(lines) : a.db = db

\* C38: the link pass never silently drops a function: resolve_dyn_calls
\* gives one linked object per function of the input list, so that a file
\* that run_scratch_file has linked, stored and started has one stored name
\* per function it defines; a list in which two functions share a name is
\* rejected with an error, so no run of such a file starts.
C38_LinkKeepsEveryFunction ==
    \A lines \in AsmTexts :
        RunningFile(lines) =>
           LET parsed == parse_file(lines)[2]
           IN /\ Len(db.names) = Len(parsed)
              /\ \A k \in 1..Len(parsed) :
                    get_code_object_by_name(db, parsed[k].func_name) # None
              /\ \A k, k2 \in 1..Len(parsed) :
                    parsed[k].func_name = parsed[k2].func_name => k = k2

\* C39: instruction text round trip: for every instruction I of the
\* instruction set (LoadDyn(name), ReturnVal and JumpNe with a defined label
\* among them), assembling the line the disassembler writes for I gives I.
C39_InstructionTextRoundTrip ==
    (result.kind = "new" /\ LastCall("reassemble")) =>
       executed[1].returned = <<"Ok", <<"Instr", executed[1].call[2]>>>>

\* C36: whenever exec(false) (run_main_function) returns Ok the call stack
\* of the Vm is empty, also when a callee (depth > 1) runs its instruction
\* pointer past the end of its code without a Return.
C36_OkLeavesNoFrame ==
    result.kind = "Ok" => call_stack = <<>>

\* the line L<i>:
Marker(i) == <<<<"L">> \o Numeral(i) \o <<":">>>>

\* C35: for every label id i of any code object, disassembly puts the
\* marker L<i>: right before the text of the instruction at offset
\* labels[i], after the markers of smaller ids for that offset, whatever the
\* order of the offsets in labels, so that reassembling gives L<i> the
\* offset labels[i].
C35_MarkersAtLabelOffsets ==
    (result.kind = "new" /\ LastCall("disassemble_function")) =>
       LET obj == executed[1].call[2]
           text == executed[1].returned
           body == SubSeq(text, 3 + Len(obj.litpool), Len(text))
           At(i) == {q \in 1..Len(body) : body[q] = Marker(i)}
       IN \A i \in 0..(Len(obj.labels) - 1) :
             \E q \in At(i) :
                /\ At(i) = {q}
                /\ Cardinality({q2 \in 1..q : ~IsLabelLine(body[q2])}) = obj.labels[i + 1]
                /\ \A j \in 0..(i - 1) :
                      obj.labels[j + 1] = obj.labels[i + 1] => \A q2 \in At(j) : q2 < q

\* line q of a function is an instruction: not the header, not a .lit line,
\* not a label
IsInstrLine(function, q) ==
    /\ q > 1
    /\ ~IsLabelLine(function[q])
    /\ function[q][1][1] # "."

\* the lines of the labels of a function, in the order written
LabelLines(function) ==
    SelectSeq([q \in 1..Len(function) |-> q], LAMBDA q : q > 1 /\ IsLabelLine(function[q]))

\* the object stored for a function has as labels[id], for the id-th label
\* written, the number of instruction lines before it, and there the
\* instruction of the first instruction line after it
LabelsCountInstructions(function) ==
    LET obj == get_code_object_by_name(db, NameOf(Tail(function[1][1])))[2]
        at == LabelLines(function)
    IN /\ Len(obj.labels) = Len(at)
       /\ \A k \in 1..Len(at) :
             /\ obj.labels[k] = Cardinality({q \in 1..at[k] : IsInstrLine(function, q)})
             /\ \A q \in at[k]..Len(function) :
                   (IsInstrLine(function, q)
                    /\ \A q2 \in at[k]..(q - 1) : ~IsInstrLine(function, q2))
                   => FormatInstr(obj.code[obj.labels[k] + 1])[1] = function[q][1]

\* C34: in an assembled function the label ids follow the order of
\* definition and labels[id] is the number of instructions before the label
\* (the header, .lit lines and other labels are not counted), so that a jump
\* to a label continues at the first instruction written after it; a jump
\* to a label name that is not defined is an error of the assembler.
C34_LabelsCountInstructions ==
    /\ \A lines \in AsmTexts :
          RunningFile(lines) =>
             LET functions == split_functions(preprocess(lines))
             IN \A f \in 1..Len(functions) : LabelsCountInstructions(functions[f])
    /\ (Ran(<<"JumpT", 1>>, 2) /\ InLoop /\ call_depth = 2)
          => InstrAt(Top) = <<"LoadLocal", 1>>
    /\ (result.kind = "new" /\ LastCall("decode")) =>
          \A m \in DOMAIN SameNameJump :
             (executed[1].call[2] = Chars[m]
              /\ (executed[1].call[3] = None \/ executed[1].call[3][1] \notin DOMAIN AsmLabels))
             => executed[1].returned[1] = "Err"

\* g runs after jmp_t rec2 on true: it is at load_loc 1, the instruction
\* written after rec2:, which 7 instructions precede
C34_Witness ==
    /\ Ran(<<"JumpT", 1>>, 2)
    /\ InLoop
    /\ call_depth = 2
    /\ Top.code_obj.labels = <<6, 7>>
    /\ Top.instruction = 7

\* run_scratch_file has assembled this file and the run has ended
RanFile(lines) ==
    /\ runs # <<>>
    /\ result.kind \in {"Ok", "Err", "Panic"}
    /\ \E a \in Assemble(lines) : a.db = db

\* C26: end to end: for a program of one function whose main has the I32
\* literals a and b and the code load_lit 0, load_lit 1, add or sub, ret_val,
\* run_scratch_file (assemble, link, insert, run main) returns a + b
\* respectively a - b: 13 for 6, 7 with add and 7 for 10, 3 with sub.
C26_EndToEnd ==
    \A a \in ScenarioLits, b \in ScenarioLits :
        /\ RanFile(Scenario(a, b, "add")) => result = Ok(a + b)
        /\ RanFile(Scenario(a, b, "sub")) => result = Ok(a - b)

\* the step is a ReturnVal of a callee that has a value to return
ReturnsValue ==
    /\ call_depth > 1
    /\ ~PastEnd(Top)
    /\ InstrAt(Top)[1] = "ReturnVal"
    /\ Top.stack # <<>>

\* C27: operand stacks and local environments are frame-private: a step
\* changes the operand stack, the locals and the instruction pointer of the
\* top frame only, but for ReturnVal, which pushes exactly one value, the one
\* it returns, onto the operand stack of the immediate caller; no frame
\* under the top one is changed otherwise or removed.
C27_FramesArePrivate ==
    [][InLoop =>
         /\ Len(call_stack') >= call_depth - 1
         /\ \A k \in 1..(call_depth - 1) :
               call_stack'[k] =
                  IF k = call_depth - 1 /\ ReturnsValue
                  THEN [call_stack[k] EXCEPT !.stack = Append(@, Last(Top.stack))]
                  ELSE call_stack[k]]_vars

\* a callee at depth 3 has returned a value to its caller, which runs on
\* with locals of its own above main
C27_Witness ==
    /\ Ran(<<"ReturnVal">>, 3)
    /\ InLoop
    /\ call_depth = 2
    /\ Top.stack # <<>>
    /\ Top.locals # call_stack[1].locals

\* C28: a step either completes or fails: when an instruction fails with an
\* error (a Call of an unknown hash or with too few arguments, say), the
\* operand stack, the locals and the instruction pointer of the failing frame
\* are what they were before the step; no operand is consumed.
C28_FailedStepConsumesNothing ==
    [][(InLoop /\ ~PastEnd(Top) /\ result'.kind = "Err")
          => /\ Len(call_stack') = call_depth
             /\ call_stack'[call_depth] = Top]_vars

\* the loop is about to run a jump whose label exists and whose operands,
\* at least need of them, are on the stack
JumpReady(mnemonics, need) ==
    /\ InLoop
    /\ ~PastEnd(Top)
    /\ InstrAt(Top)[1] \in mnemonics
    /\ InstrAt(Top)[2] < Len(Top.code_obj.labels)
    /\ Len(Top.stack) >= need

\* the iteration leaves the run in the loop with the same frames, the top
\* one with need operands fewer and at labels[k] if taken, else at ip + 1
Jumped(taken, need) ==
    /\ result' = result
    /\ call_stack' =
          [call_stack EXCEPT ![call_depth] =
              [Top EXCEPT !.stack = SubSeq(@, 1, Len(@) - need),
                          !.instruction =
                              IF taken THEN Top.code_obj.labels[InstrAt(Top)[2] + 1]
                              ELSE @ + 1]]

\* C29: with its label defined and a value on the stack, JumpT k pops exactly
\* one value and goes to labels[k] iff the value is Bool(true), otherwise to
\* ip + 1; JumpF k pops one value and goes to labels[k] iff it is Bool(false);
\* Jump k always goes to labels[k] and leaves the operand stack unchanged.
C29_JumpSemantics ==
    [][/\ JumpReady({"Jump"}, 0) => Jumped(TRUE, 0)
       /\ JumpReady({"JumpT"}, 1) => Jumped(Last(Top.stack) = Bool(TRUE), 1)
       /\ JumpReady({"JumpF"}, 1) => Jumped(Last(Top.stack) = Bool(FALSE), 1)]_vars

\* a JumpT on Bool(true) went to its label past the nop, with the stack empty
C29_Witness ==
    /\ Ran(<<"JumpT", 0>>, 1)
    /\ InLoop
    /\ Top.code_obj.litpool = <<Bool(TRUE)>>
    /\ Top.stack = <<>>
    /\ Top.instruction = Top.code_obj.labels[1]
    /\ Top.instruction # 2

\* the loop is about to run this kind of operator with its operands, need of
\* them, on the stack
OpReady(mnemonic, need) ==
    /\ InLoop
    /\ ~PastEnd(Top)
    /\ InstrAt(Top)[1] = mnemonic
    /\ Len(Top.stack) >= need

\* the iteration leaves the run in the loop with the same frames, the top one
\* at ip + 1 with v in the place of its need topmost operands
Replaced(need, v) ==
    /\ result' = result
    /\ call_stack' =
          [call_stack EXCEPT ![call_depth] =
              [Top EXCEPT !.stack = SubSeq(@, 1, Len(@) - need) \o <<v>>,
                          !.instruction = @ + 1]]

\* lhs - rhs, lhs / rhs, lhs % rhs of two small i32, none for a zero divisor
SmallI32(v) == v[1] = "I32" /\ v[2] \in -100..100
Quotient(op, l, r) ==
    CASE op = "Sub" -> Some(I32(l - r))
      [] op = "Div" -> IF r = 0 THEN None ELSE Some(I32(TruncDiv(l, r)))
      [] op = "Mod" -> IF r = 0 THEN None ELSE Some(I32(l - r * TruncDiv(l, r)))

\* C31: BinOp pops rhs (the top) then lhs and pushes lhs OP rhs: where the
\* operator has a value, the step leaves the operand stack one shorter, the
\* values under the two operands as they were and lhs OP rhs on top, with the
\* deeper operand on the left (for two small i32, Sub, Div and Mod push
\* deeper - top, deeper / top, deeper % top); UnaryOp puts OP arg in the place
\* of the top value and leaves the depth as it was.
C31_OperatorStackDiscipline ==
    [][/\ (OpReady("BinOp", 2) /\ result'.kind # "Panic") =>
            LET rhs == Top.stack[Len(Top.stack)]
                lhs == Top.stack[Len(Top.stack) - 1]
                op == InstrAt(Top)[2]
            IN /\ \E r \in ApplyBinOp(op, lhs, rhs) : r[1] = "ok" /\ Replaced(2, r[2])
               /\ (op \in {"Sub", "Div", "Mod"} /\ SmallI32(lhs) /\ SmallI32(rhs)) =>
                     /\ Quotient(op, lhs[2], rhs[2]) # None
                     /\ Replaced(2, Quotient(op, lhs[2], rhs[2])[1])
       /\ (OpReady("UnaryOp", 1) /\ result'.kind # "Panic") =>
            \E r \in (IF InstrAt(Top)[2] = "Not" THEN value_not(Last(Top.stack))
                       ELSE value_neg(Last(Top.stack))) :
               r[1] = "ok" /\ Replaced(1, r[2])]_vars

\* Sub has run on I32(3) over I32(0) with Bool(true) under them: the stack
\* holds Bool(true) and I32(3)
C31_Witness ==
    /\ Ran(<<"BinOp", "Sub">>, 1)
    /\ InLoop
    /\ Top.code_obj.litpool = <<Bool(TRUE), I32(3), I32(0)>>
    /\ Top.stack = <<Bool(TRUE), I32(3)>>

\* a is before b in the lexicographic order of strings
LexLess(a, b) ==
    \E k \in 1..Len(b) :
        /\ k <= Len(a) + 1
        /\ \A j \in 1..(k - 1) : a[j] = b[j]
        /\ k = Len(a) + 1 \/ a[k] < b[k]

\* l < r for two values of one variant: numbers and characters by size,
\* false before true, strings lexicographically
ValueLess(l, r) ==
    CASE l[1] = "Bool" -> ~l[2] /\ r[2]
      [] l[1] = "String" -> LexLess(l[2], r[2])
      [] l[1] = "Hash" -> FALSE
      [] OTHER -> l[2] < r[2]

\* the values have an order the comparison can use: one variant among the
\* integers, Char, Bool, String and Hash (of two digests, the same one)
Ordered(l, r) ==
    /\ l[1] = r[1]
    /\ l[1] \in IntVariants \cup {"Char", "Bool", "String", "Hash"}
    /\ l[1] = "Hash" => l = r

\* lhs OP rhs
Holds(op, lhs, rhs) ==
    CASE op = "JumpEq" -> lhs = rhs
      [] op = "JumpNe" -> lhs # rhs
      [] op = "JumpGt" -> ValueLess(rhs, lhs)
      [] op = "JumpGe" -> ~ValueLess(lhs, rhs)
      [] op = "JumpLt" -> ValueLess(lhs, rhs)
      [] op = "JumpLe" -> ~ValueLess(rhs, lhs)

IsLinearOrder(o, graph) ==
    /\ Len(o) = Cardinality(DOMAIN graph)
    /\ \A n \in DOMAIN graph : \E k \in DOMAIN o : o[k] = n
    /\ \A i \in DOMAIN o, j \in DOMAIN o : (o[j] \in graph[o[i]] /\ i # j) => i < j

\* C21: for an acyclic input the topological sort yields a linear order that
\* holds every input function once, each before all of its dependences, and
\* the order a resolver is built with is such an order, so that
\* resolve_dyn_calls, walking it from its end, has hashed every callee of the
\* input before a function that refers to it
C21_SortYieldsLinearOrder ==
    /\ (LastCall("Toposort::new") /\ ~HasCycle(executed[1].call[2]))
          => /\ executed[1].returned[1] = "Ok"
             /\ IsLinearOrder(executed[1].returned[2], executed[1].call[2])
    /\ (LastCall("DynCallResolver::new") /\ executed[1].returned[1] = "Ok")
          => IsLinearOrder(executed[1].returned[2].hash_order,
                           executed[1].returned[2].deps)

====
